---- MODULE Spec2Model ----
(***************************************************************************)
(* Model of the contract-analysis core of Genesis-Legality-AI:             *)
(*   - segmentation/patterns.py and segmentation/clause_splitter.py        *)
(*     (heading grammar and clause tree builder),                          *)
(*   - risk/risk_engine.py (rule matching, severity resolution,            *)
(*     aggregation, playbook loading).                                     *)
(* Python strings are sequences of one-character strings, so that          *)
(* strip, split, upper/lower and the regular expressions are computed      *)
(* character by character, as the interpreter computes them.  A local      *)
(* variable of the code is a parameter of the operator that models the     *)
(* rest of the function.                                                   *)
(***************************************************************************)
EXTENDS Integers, Sequences, FiniteSets, TLC

(***************************************************************************)
(* Characters and the str methods the code uses.                           *)
(***************************************************************************)
UpperLetters ==
    <<"A", "B", "C", "D", "E", "F", "G", "H", "I", "J", "K", "L", "M",
      "N", "O", "P", "Q", "R", "S", "T", "U", "V", "W", "X", "Y", "Z">>

LowerLetters ==
    <<"a", "b", "c", "d", "e", "f", "g", "h", "i", "j", "k", "l", "m",
      "n", "o", "p", "q", "r", "s", "t", "u", "v", "w", "x", "y", "z">>

DigitChars == <<"0", "1", "2", "3", "4", "5", "6", "7", "8", "9">>

Range(f) == {f[i] : i \in DOMAIN f}

DigitSet == Range(DigitChars)

UpperSet == Range(UpperLetters)

LowerSet == Range(LowerLetters)

\* \s of the re module and the characters str.strip() removes.
SpaceSet == {" ", "\t", "\n"}

\* \w of the re module.
WordSet == DigitSet \cup UpperSet \cup LowerSet \cup {"_"}

\* The value of a position outside the string.
NoChar == ""

At(s, i) == IF i \in 1..Len(s) THEN s[i] ELSE NoChar

IsDigit(c) == c \in DigitSet

IsUpperLetter(c) == c \in UpperSet

IsLowerLetter(c) == c \in LowerSet

IsSpace(c) == c \in SpaceSet

IsWordChar(c) == c \in WordSet

UpperOf == [c \in LowerSet |-> UpperLetters[CHOOSE i \in 1..26 : LowerLetters[i] = c]]

LowerOf == [c \in UpperSet |-> LowerLetters[CHOOSE i \in 1..26 : UpperLetters[i] = c]]

DigitValue == [c \in DigitSet |-> (CHOOSE i \in 1..10 : DigitChars[i] = c) - 1]

ToUpper(c) == IF c \in LowerSet THEN UpperOf[c] ELSE c

ToLower(c) == IF c \in UpperSet THEN LowerOf[c] ELSE c

\* str.upper()
upper(s) == [i \in 1..Len(s) |-> ToUpper(s[i])]

\* str.lower()
lower(s) == [i \in 1..Len(s) |-> ToLower(s[i])]

\* s[a:b] with 1-based inclusive bounds; empty when a > b.
Slice(s, a, b) == IF a > b THEN <<>> ELSE SubSeq(s, a, b)

RECURSIVE SkipSpaceForward(_, _)
SkipSpaceForward(s, i) ==
    IF i <= Len(s) /\ IsSpace(s[i]) THEN SkipSpaceForward(s, i + 1) ELSE i

RECURSIVE SkipSpaceBackward(_, _)
SkipSpaceBackward(s, i) ==
    IF i >= 1 /\ IsSpace(s[i]) THEN SkipSpaceBackward(s, i - 1) ELSE i

\* str.strip()
strip(s) == Slice(s, SkipSpaceForward(s, 1), SkipSpaceBackward(s, Len(s)))

\* needle matches s at position i.
MatchesAt(s, needle, i) ==
    /\ i >= 1
    /\ i + Len(needle) - 1 <= Len(s)
    /\ \A k \in 1..Len(needle) : s[i + k - 1] = needle[k]

\* "needle in s" of Python.
Contains(s, needle) == \E i \in 1..(Len(s) + 1) : MatchesAt(s, needle, i)

\* The indices of 1..n that satisfy Test, in increasing order.
Indices(n, Test(_)) == SelectSeq([i \in 1..n |-> i], Test)

\* The pieces of s between the separator positions cuts.
Pieces(s, cuts) ==
    [k \in 1..(Len(cuts) + 1) |->
        Slice(s, IF k = 1 THEN 1 ELSE cuts[k - 1] + 1,
                 IF k > Len(cuts) THEN Len(s) ELSE cuts[k] - 1)]

\* str.split(sep) for a one-character sep: empty pieces are kept.
split(s, sep) == Pieces(s, Indices(Len(s), LAMBDA i : s[i] = sep))

RECURSIVE join(_, _)
\* sep.join(parts)
join(sep, parts) ==
    IF parts = <<>> THEN <<>>
    ELSE IF Len(parts) = 1 THEN parts[1]
    ELSE join(sep, SubSeq(parts, 1, Len(parts) - 1)) \o sep \o parts[Len(parts)]

\* str.isdigit(): non-empty and all digits.
isdigit(s) == s # <<>> /\ \A i \in 1..Len(s) : IsDigit(s[i])

\* str.replace(c, "") for a one-character c.
RemoveChar(s, c) == SelectSeq(s, LAMBDA x : x # c)

RECURSIVE ParseIntFrom(_, _, _)
ParseIntFrom(s, i, acc) ==
    IF i > Len(s) THEN acc ELSE ParseIntFrom(s, i + 1, acc * 10 + DigitValue[s[i]])

\* int(s) for a string of digits.
ParseInt(s) == ParseIntFrom(s, 1, 0)

RECURSIVE RunEnd(_, _, _, _)
\* The end of a greedy run starting at i: the first index >= i whose
\* character is not in the class (inside = TRUE) or is in it (inside = FALSE).
RunEnd(s, i, class, inside) ==
    IF i <= Len(s) /\ ((s[i] \in class) = inside)
    THEN RunEnd(s, i + 1, class, inside)
    ELSE i

\* \b of the re module between positions i-1 and i.
WordBoundary(s, i) == IsWordChar(At(s, i - 1)) # IsWordChar(At(s, i))

\* The largest element of a non-empty set of integers.
Max(S) == CHOOSE x \in S : \A y \in S : x >= y

\* The smallest element of a non-empty set of integers.
Min(S) == CHOOSE x \in S : \A y \in S : x <= y

(***************************************************************************)
(* segmentation/patterns.py                                                *)
(***************************************************************************)
\* The title class [A-Za-z0-9 ,\-()] of CLAUSE_HEADING_REGEX.
TitleCharSet == UpperSet \cup LowerSet \cup DigitSet \cup {" ", ",", "-", "(", ")"}

\* The class [IVXivx0-9] of CLAUSE_HEADING_REGEX.
RomanCharSet == DigitSet \cup {"I", "V", "X", "i", "v", "x"}

\* The en dash of the class [<en dash>\-].
EnDash == "ENDASH"

KEYWORD_ARTICLE == <<"A", "R", "T", "I", "C", "L", "E">>

KEYWORD_SECTION == <<"S", "E", "C", "T", "I", "O", "N">>

\* The shortest title: [A-Z] and {2,} more characters.
MinTitleLen == 3

NoMatch == [matched |-> FALSE]

\* ([A-Z][A-Za-z0-9 ,\-()]{2,}) matches at position r.
TitleAt(s, r) ==
    /\ IsUpperLetter(At(s, r))
    /\ RunEnd(s, r + 1, TitleCharSet, TRUE) - r >= MinTitleLen

RECURSIVE DottedEnd(_, _)
\* The end of (?:\.\d+)* starting at p.
DottedEnd(s, p) ==
    IF At(s, p) = "." /\ IsDigit(At(s, p + 1))
    THEN DottedEnd(s, RunEnd(s, p + 1, DigitSet, TRUE))
    ELSE p

\* The match with the number ending before p, the separator before q, the
\* spaces before r and the title before t.
NumericHeadingResult(s, p, q, r, t) ==
    IF IsDigit(At(s, 1)) /\ r > q /\ TitleAt(s, r)
    THEN [matched |-> TRUE, numeric |-> TRUE,
          number |-> Slice(s, 1, p - 1), keyword |-> <<>>, roman |-> <<>>,
          title |-> Slice(s, r, t - 1), end |-> t - 1]
    ELSE NoMatch

NumericHeadingTitle(s, p, q, r) ==
    NumericHeadingResult(s, p, q, r, RunEnd(s, r + 1, TitleCharSet, TRUE))

NumericHeadingSpaces(s, p, q) ==
    NumericHeadingTitle(s, p, q, RunEnd(s, q, SpaceSet, TRUE))

NumericHeadingSeparator(s, p) ==
    NumericHeadingSpaces(s, p, IF At(s, p) \in {".", ")"} THEN p + 1 ELSE p)

\* First alternative: (\d+(?:\.\d+)*)[.)]?\s+([A-Z][A-Za-z0-9 ,\-()]{2,})
NumericHeadingMatch(s) ==
    NumericHeadingSeparator(s, DottedEnd(s, RunEnd(s, 1, DigitSet, TRUE)))

ArticleKeyword(s) ==
    IF MatchesAt(s, KEYWORD_ARTICLE, 1) THEN KEYWORD_ARTICLE
    ELSE IF MatchesAt(s, KEYWORD_SECTION, 1) THEN KEYWORD_SECTION
    ELSE <<>>

\* Position after the optional dash at p.
AfterDash(s, p) == IF At(s, p) \in {EnDash, "-"} THEN p + 1 ELSE p

\* Where the title starts when the numeral ends before k: after
\* \s*[<en dash>\-]?\s*
ArticleTitleStart(s, k) ==
    RunEnd(s, AfterDash(s, RunEnd(s, k, SpaceSet, TRUE)), SpaceSet, TRUE)

ArticleRecord(s, kw, a, k, ts) ==
    [matched |-> TRUE, numeric |-> FALSE,
     number |-> <<>>, keyword |-> kw, roman |-> Slice(s, a, k - 1),
     title |-> Slice(s, ts, RunEnd(s, ts + 1, TitleCharSet, TRUE) - 1),
     end |-> RunEnd(s, ts + 1, TitleCharSet, TRUE) - 1]

\* The numeral [IVXivx0-9]+ is greedy and gives characters back until the
\* rest matches: ks are the numeral ends after which the title matches.
ArticleHeadingResult(s, kw, a, ks) ==
    IF kw # <<>> /\ a > Len(kw) + 1 /\ ks # {}
    THEN ArticleRecord(s, kw, a, Max(ks), ArticleTitleStart(s, Max(ks)))
    ELSE NoMatch

ArticleHeadingNumeral(s, kw, a) ==
    ArticleHeadingResult(s, kw, a,
        {k \in (a + 1)..RunEnd(s, a, RomanCharSet, TRUE) :
            TitleAt(s, ArticleTitleStart(s, k))})

ArticleHeadingKeyword(s, kw) ==
    ArticleHeadingNumeral(s, kw, RunEnd(s, Len(kw) + 1, SpaceSet, TRUE))

\* Second alternative:
\* (ARTICLE|SECTION)\s+([IVXivx0-9]+)\s*[<en dash>\-]?\s*([A-Z][A-Za-z0-9 ,\-()]{2,})
ArticleHeadingMatch(s) == ArticleHeadingKeyword(s, ArticleKeyword(s))

FirstMatch(m1, m2) == IF m1.matched THEN m1 ELSE m2

\* CLAUSE_HEADING_REGEX.match(s)
CLAUSE_HEADING_REGEX(s) == FirstMatch(NumericHeadingMatch(s), ArticleHeadingMatch(s))

NON_HEADING_KEYWORDS ==
    {<<"R", "o", "a", "d">>,
     <<"A", "v", "e", "n", "u", "e">>,
     <<"A", "v", "e">>,
     <<"S", "t", "r", "e", "e", "t">>,
     <<"S", "t">>,
     <<"B", "o", "u", "l", "e", "v", "a", "r", "d">>,
     <<"B", "l", "v", "d">>,
     <<"D", "r", "i", "v", "e">>,
     <<"D", "r">>,
     <<"L", "a", "n", "e">>,
     <<"L", "n">>,
     <<"C", "o", "u", "r", "t">>,
     <<"C", "t">>,
     <<"P", "l", "a", "c", "e">>,
     <<"P", "l">>,
     <<"W", "a", "y">>,
     <<"P", "a", "r", "k", "w", "a", "y">>,
     <<"P", "k", "w", "y">>,
     <<"B", "u", "i", "l", "d", "i", "n", "g">>,
     <<"F", "l", "o", "o", "r">>,
     <<"S", "u", "i", "t", "e">>,
     <<"S", "t", "e">>,
     <<"B", "o", "x">>,
     <<"P", "O">>,
     <<"A", "p", "a", "r", "t", "m", "e", "n", "t">>,
     <<"A", "p", "t">>,
     <<"A", "t", "t", "e", "n", "t", "i", "o", "n">>,
     <<"F", "a", "c", "s", "i", "m", "i", "l", "e">>,
     <<"F", "a", "x">>,
     <<"P", "h", "o", "n", "e">>,
     <<"T", "e", "l">>,
     <<"E", "m", "a", "i", "l">>,
     <<"C", "o", "n", "t", "a", "c", "t">>,
     <<"S", "i", "g", "n", "a", "t", "u", "r", "e">>,
     <<"B", "y", " ", "/", "s", "/">>,
     <<"T", "i", "t", "l", "e">>,
     <<"I", "N", " ", "W", "I", "T", "N", "E", "S", "S">>,
     <<"W", "H", "E", "R", "E", "O", "F">>,
     <<"P", "a", "g", "e">>,
     <<"E", "x", "h", "i", "b", "i", "t">>,
     <<"A", "p", "p", "e", "n", "d", "i", "x">>,
     <<"S", "c", "h", "e", "d", "u", "l", "e">>,
     <<"U", "S", "A">>,
     <<"U", "n", "i", "t", "e", "d", " ", "S", "t", "a", "t", "e", "s">>,
     <<"Z", "i", "p">>,
     <<"P", "o", "s", "t", "a", "l">>,
     <<"T", "e", "l", "e", "p", "h", "o", "n", "e">>}

DigitsAt(s, i, n) == \A k \in i..(i + n - 1) : IsDigit(At(s, k))

KeywordAt(heading_upper, keyword_upper, i) ==
    /\ MatchesAt(heading_upper, keyword_upper, i)
    /\ WordBoundary(heading_upper, i)
    /\ WordBoundary(heading_upper, i + Len(keyword_upper))

\* re.search(r'\b' + re.escape(keyword.upper()) + r'\b', heading_upper),
\* keyword_upper being keyword.upper()
KeywordSearch(heading_upper, keyword_upper) ==
    \E i \in 1..(Len(heading_upper) - Len(keyword_upper) + 1) :
        heading_upper[i] = keyword_upper[1] /\ KeywordAt(heading_upper, keyword_upper, i)

\* The loop over NON_HEADING_KEYWORDS finds a keyword.
AnyKeyword(heading_upper) ==
    \E keyword \in NON_HEADING_KEYWORDS : KeywordSearch(heading_upper, upper(keyword))

\* ZIP_CODE_PATTERN.search(s): \b\d{5}(?:-\d{4})?\b
ZIP_CODE_PATTERN(s) ==
    \E i \in 1..Len(s) :
        /\ WordBoundary(s, i)
        /\ DigitsAt(s, i, 5)
        /\ \/ At(s, i + 5) = "-" /\ DigitsAt(s, i + 6, 4) /\ WordBoundary(s, i + 10)
           \/ WordBoundary(s, i + 5)

\* Position after the optional [-.] at p.
AfterPhoneSeparator(s, p) == IF At(s, p) \in {"-", "."} THEN p + 1 ELSE p

PhoneLast(s, k) == DigitsAt(s, k, 4)

PhoneMiddle(s, j) == DigitsAt(s, j, 3) /\ PhoneLast(s, AfterPhoneSeparator(s, j + 3))

\* PHONE_PATTERN.search(s): \d{3}[-.]?\d{3}[-.]?\d{4}
PHONE_PATTERN(s) ==
    \E i \in 1..Len(s) :
        DigitsAt(s, i, 3) /\ PhoneMiddle(s, AfterPhoneSeparator(s, i + 3))

\* \s+\d+ matches at e.
SpacesThenDigit(s, e) ==
    RunEnd(s, e, SpaceSet, TRUE) > e /\ IsDigit(At(s, RunEnd(s, e, SpaceSet, TRUE)))

\* PAGE_PATTERN.search(s): (?:^|\s)(?:Page|p\.)\s+\d+ with re.IGNORECASE;
\* u is s in upper case.
PageMarkerAt(s, u, i) ==
    /\ (i = 1 \/ IsSpace(s[i - 1]))
    /\ \/ MatchesAt(u, <<"P", "A", "G", "E">>, i) /\ SpacesThenDigit(s, i + 4)
       \/ MatchesAt(u, <<"P", ".">>, i) /\ SpacesThenDigit(s, i + 2)

PAGE_PATTERN(s) == \E i \in 1..Len(s) : PageMarkerAt(s, upper(s), i)

MinClauseNumber == 1

MaxClauseNumber == 99

HeadingPartLen == 100

\* line[:100]
HeadingPart(line) ==
    Slice(line, 1, IF Len(line) < HeadingPartLen THEN Len(line) ELSE HeadingPartLen)

\* int(re.match(r'^(\d+)', line).group(1))
MainNumber(line) == ParseInt(Slice(line, 1, RunEnd(line, 1, DigitSet, TRUE) - 1))

\* A variant of the range test that accepts every number.
AnyClauseNumber(main_num) == TRUE

ClauseNumberInRange(main_num) ==
    ~(main_num < MinClauseNumber \/ main_num > MaxClauseNumber)

\* is_valid_heading after line = line.strip()
IsValidHeadingLine(line) ==
    /\ line # <<>>
    /\ CLAUSE_HEADING_REGEX(line).matched
    /\ ~AnyKeyword(upper(HeadingPart(line)))
    /\ ~ZIP_CODE_PATTERN(line)
    /\ ~PHONE_PATTERN(line)
    /\ ~PAGE_PATTERN(line)
    /\ (IsDigit(At(line, 1)) => ClauseNumberInRange(MainNumber(line)))

is_valid_heading(line) == IsValidHeadingLine(strip(line))

\* The start of the trailing run of [.,:;], Len(t) + 1 if there is none.
TrailingPunctuationStart(t) ==
    Min({i \in 1..(Len(t) + 1) : \A k \in i..Len(t) : t[k] \in {".", ",", ":", ";"}})

\* re.sub(r'[.,:;]+\s*$', '', t) for a stripped t
RemoveTrailingPunctuation(t) == Slice(t, 1, TrailingPunctuationStart(t) - 1)

\* None of Python, for an id or a title.
None == <<>>

ExtractFromMatch(match) ==
    IF ~match.matched THEN [clause_id |-> None, title |-> None]
    ELSE [clause_id |-> IF match.numeric THEN match.number
                        ELSE match.keyword \o <<" ">> \o match.roman,
          title |-> RemoveTrailingPunctuation(strip(match.title))]

extract_clause_number_and_title(line) ==
    ExtractFromMatch(CLAUSE_HEADING_REGEX(strip(line)))

\* The positions of "." in the id.
Dots(clause_id) == {i \in 1..Len(clause_id) : clause_id[i] = "."}

is_subclause(clause_id) == Dots(clause_id) # {}

\* A variant that takes the first component of the id for the parent.
RootClauseId(clause_id) ==
    IF clause_id = None \/ Dots(clause_id) = {} THEN None
    ELSE Slice(clause_id, 1, Min(Dots(clause_id)) - 1)

\* ".".join(clause_id.split(".")[:-1]), None for an id without a dot.
get_parent_clause_id(clause_id) ==
    IF clause_id = None \/ Dots(clause_id) = {} THEN None
    ELSE Slice(clause_id, 1, Max(Dots(clause_id)) - 1)

SentenceEndSet == {".", "!", "?"}

\* The pieces of re.split(r'[.!?]+', text) start where a character that is
\* no end mark follows an end mark or the start of the text.
SentenceStarts(text) ==
    {i \in 1..Len(text) :
        text[i] \notin SentenceEndSet /\ (i = 1 \/ text[i - 1] \in SentenceEndSet)}

\* A variant that counts the end marks of the text.
CountEndMarks(text) == Cardinality({i \in 1..Len(text) : text[i] \in SentenceEndSet})

\* len([s for s in re.split(r'[.!?]+', text) if s.strip()])
count_sentences(text) ==
    Cardinality({i \in SentenceStarts(text) :
        strip(Slice(text, i, RunEnd(text, i, SentenceEndSet, FALSE) - 1)) # <<>>})

(***************************************************************************)
(* segmentation/clause_splitter.py                                         *)
(***************************************************************************)
\* "Copyright" followed by the two characters the source file holds after it.
FOOTER_KEYWORDS ==
    {<<"C", "o", "p", "y", "r", "i", "g", "h", "t", " ", "ACIRC", "COPY">>,
     <<"A", "l", "l", " ", "R", "i", "g", "h", "t", "s", " ", "R", "e", "s", "e", "r", "v", "e", "d">>,
     <<"P", "a", "g", "e", " ">>}

MinLineLen == 3

MaxPageNumberLen == 5

\* is_noise_line with stripped = line.strip()
IsNoise(line, stripped) ==
    \/ line = <<>>
    \/ Len(stripped) < MinLineLen
    \/ \E keyword \in FOOTER_KEYWORDS : Contains(line, keyword)
    \/ /\ Len(stripped) <= MaxPageNumberLen
       /\ isdigit(RemoveChar(RemoveChar(stripped, "-"), "."))

is_noise_line(line) == IsNoise(line, strip(line))

\* "if clause_id and title" for the pair extract_clause_number_and_title returns
HasIdAndTitle(pair) == pair.clause_id # None /\ pair.title # None

\* The line passes the tests of the scan loop.
IsHeadingLine(line) ==
    /\ ~is_noise_line(line)
    /\ is_valid_heading(line)
    /\ HasIdAndTitle(extract_clause_number_and_title(line))

\* The tuple (i, line, clause_id, title) appended to headings.
HeadingRecord(i, line, pair) ==
    [line_index |-> i, line |-> line, clause_id |-> pair.clause_id, title |-> pair.title]

HeadingRecords(lines, idx) ==
    [k \in 1..Len(idx) |->
        HeadingRecord(idx[k] - 1, lines[idx[k]],
                      extract_clause_number_and_title(lines[idx[k]]))]

HeadingsOf(lines) ==
    HeadingRecords(lines, Indices(Len(lines), LAMBDA i : IsHeadingLine(lines[i])))

\* Stage A: (line_index, line, clause_id, title) of every accepted heading;
\* line_index is the 0-based index of enumerate().
find_all_headings(text) == HeadingsOf(split(text, "\n"))

\* What the remainder of the heading line adds to body_lines.
SameLineRemainder(remainder) ==
    IF remainder = <<>> THEN <<>>
    ELSE IF remainder[1] \notin {".", ":", ","} THEN <<remainder>>
    ELSE <<strip(Slice(remainder, 2, Len(remainder)))>>

\* heading_line[end_pos:] slices the unstripped line at the end of the match
\* in the stripped line.
SameLineBody(heading_line, match) ==
    IF ~match.matched THEN <<>>
    ELSE SameLineRemainder(strip(Slice(heading_line, match.end + 1, Len(heading_line))))

\* A variant in which every body runs to the end of the text.
EndOfText(lines, headings, idx) == Len(lines)

\* next_heading_line
NextHeadingLine(lines, headings, idx) ==
    IF idx + 1 <= Len(headings) THEN headings[idx + 1].line_index ELSE Len(lines)

StrippedLines(lines, kept) == [k \in 1..Len(kept) |-> strip(lines[kept[k]])]

\* The stripped non-noise lines lines[body_start_line:next_heading_line]
\* (0-based, as range() yields them).
BodyLines(lines, body_start_line, next_heading_line) ==
    StrippedLines(lines,
        Indices(Len(lines), LAMBDA i : /\ i - 1 >= body_start_line
                                       /\ i - 1 < next_heading_line
                                       /\ ~is_noise_line(strip(lines[i]))))

\* " ".join(body_lines).strip()
BodyText(body_lines) == strip(join(<<" ">>, body_lines))

\* The text of heading number idx: the remainder of the heading line, then
\* the non-noise lines up to the next heading.
ClauseBody(lines, headings, idx) ==
    BodyText(SameLineBody(headings[idx].line,
                          CLAUSE_HEADING_REGEX(strip(headings[idx].line)))
             \o BodyLines(lines, headings[idx].line_index + 1,
                          NextHeadingLine(lines, headings, idx)))

RECURSIVE TupleLess(_, _)
\* tuple comparison of Python: a < b
TupleLess(a, b) ==
    IF b = <<>> THEN FALSE
    ELSE IF a = <<>> THEN TRUE
    ELSE IF a[1] # b[1] THEN a[1] < b[1]
    ELSE TupleLess(Tail(a), Tail(b))

\* The first whitespace-delimited token of a stripped string.
FirstTokenOf(t) == Slice(t, 1, RunEnd(t, 1, SpaceSet, FALSE) - 1)

\* str.split()[0], <<>> where Python raises IndexError.
FirstToken(s) == FirstTokenOf(strip(s))

\* tuple(int(p) for p in parts), (0,) on ValueError
DottedSortKey(parts) ==
    IF \A i \in 1..Len(parts) : isdigit(parts[i])
    THEN [i \in 1..Len(parts) |-> ParseInt(parts[i])]
    ELSE <<0>>

\* (int(token),), (0,) on ValueError or IndexError
TokenSortKey(token) == IF isdigit(token) THEN <<ParseInt(token)>> ELSE <<0>>

_clause_sort_key(clause_id) ==
    IF is_subclause(clause_id) THEN DottedSortKey(split(clause_id, "."))
    ELSE TokenSortKey(FirstToken(clause_id))

\* The 0-based position of element i after a stable sort by keys.
SortRank(keys, i) ==
    Cardinality({j \in 1..Len(keys) :
        \/ TupleLess(keys[j], keys[i])
        \/ j < i /\ ~TupleLess(keys[i], keys[j])})

SortByKeys(ids, keys) ==
    [p \in 1..Len(ids) |-> ids[CHOOSE i \in 1..Len(ids) : SortRank(keys, i) = p - 1]]

\* A variant that leaves the list in insertion order.
KeepOrder(ids) == ids

\* list.sort(key=lambda c: _clause_sort_key(c["id"])), which is stable.
SortByClauseKey(ids) ==
    SortByKeys(ids, [i \in 1..Len(ids) |-> _clause_sort_key(ids[i])])

MinSubstantialChars == 150

MinSubstantialSentences == 2

MinSubstantialSubclauses == 1

\* is_valid of apply_integrity_rules
IsSubstantial(clause) ==
    \/ Len(clause.text) >= MinSubstantialChars
    \/ count_sentences(clause.text) >= MinSubstantialSentences
    \/ Len(clause.subclauses) >= MinSubstantialSubclauses

\* A variant of the merge that discards the text.
DiscardText(node, last, merged_text) == node

\* result[-1]["text"] += " " + text
MergeInto(node, last, merged_text) ==
    [node EXCEPT ![last].text = @ \o <<" ">> \o merged_text]

RECURSIVE IntegrityLoop(_, _, _, _)
\* The loop of apply_integrity_rules from position i on.  The clause dicts
\* are shared objects: node maps each id to its dict, clauses and result
\* hold references (ids).
IntegrityLoop(clauses, i, result, node) ==
    IF i > Len(clauses) THEN [top |-> result, node |-> node]
    ELSE IF IsSubstantial(node[clauses[i]])
    THEN IntegrityLoop(clauses, i + 1, Append(result, clauses[i]), node)
    ELSE IF result # <<>>
    THEN IntegrityLoop(clauses, i + 1, result,
                       MergeInto(node, result[Len(result)], node[clauses[i]].text))
    ELSE IntegrityLoop(clauses, i + 1, result, node)

apply_integrity_rules(clauses, node) == IntegrityLoop(clauses, 1, <<>>, node)

FallbackId == <<"1">>

FallbackTitle == <<"C", "o", "n", "t", "r", "a", "c", "t">>

\* A variant of the test that takes only the empty string for empty.
IsEmptyString(text) == text = <<>>

\* not text or not text.strip()
IsEmptyInput(text) == text = <<>> \/ strip(text) = <<>>

\* return []
EmptyTree == [top |-> <<>>, node |-> <<>>, headings |-> <<>>]

\* A variant of the fallback that keeps the text as it came.
UnstrippedTree(text) ==
    [top |-> <<FallbackId>>,
     node |-> [id \in {FallbackId} |->
                 [id |-> FallbackId, title |-> FallbackTitle,
                  text |-> text, subclauses |-> <<>>]],
     headings |-> <<>>]

\* The single clause returned when no heading was found.
FallbackTree(text) ==
    [top |-> <<FallbackId>>,
     node |-> [id \in {FallbackId} |->
                 [id |-> FallbackId, title |-> FallbackTitle,
                  text |-> strip(text), subclauses |-> <<>>]],
     headings |-> <<>>]

HeadingIds(headings) == [k \in 1..Len(headings) |-> headings[k].clause_id]

SelectAt(seq, idx) == [k \in 1..Len(idx) |-> seq[idx[k]]]

FirstOccurrences(ids) ==
    SelectAt(ids, Indices(Len(ids), LAMBDA k : \A j \in 1..(k - 1) : ids[j] # ids[k]))

\* The keys of the dict clauses in insertion order: a later heading with the
\* same id replaces the value, the key keeps its first position.
ClauseKeys(headings) == FirstOccurrences(HeadingIds(headings))

\* A variant that keeps the clause_dict of the first heading with the id.
FirstHeading(headings, clause_id) ==
    Min({k \in 1..Len(headings) : headings[k].clause_id = clause_id})

\* The heading whose clause_dict the key ends up with.
LastHeading(headings, clause_id) ==
    Max({k \in 1..Len(headings) : headings[k].clause_id = clause_id})

ClauseDict(lines, headings, idx) ==
    [id |-> headings[idx].clause_id,
     title |-> headings[idx].title,
     text |-> ClauseBody(lines, headings, idx),
     subclauses |-> <<>>]

\* The dict clauses after the loop over the headings.
ClauseDicts(lines, headings, keys) ==
    [clause_id \in Range(keys) |->
        ClauseDict(lines, headings, LastHeading(headings, clause_id))]

\* "if parent_id and parent_id in clauses", for the parent being id
IsParent(parent_id, id, clauses) ==
    parent_id # None /\ parent_id \in DOMAIN clauses /\ parent_id = id

\* clause_id is appended to clauses[id]["subclauses"].
IsSubclauseOf(clause_id, id, clauses) ==
    is_subclause(clause_id) /\ IsParent(get_parent_clause_id(clause_id), id, clauses)

\* The clause dicts after the subclauses were moved under their parents.
OrganizeTree(keys, clauses) ==
    [id \in DOMAIN clauses |->
        [clauses[id] EXCEPT
            !.subclauses = SelectSeq(keys, LAMBDA k : IsSubclauseOf(k, id, clauses))]]

\* top_level before the sort
TopLevel(keys) == SelectSeq(keys, LAMBDA k : ~is_subclause(k))

TreeResult(merged, headings) ==
    [top |-> merged.top, node |-> merged.node, headings |-> headings]

BuildTree(headings, keys, clauses) ==
    TreeResult(apply_integrity_rules(SortByClauseKey(TopLevel(keys)),
                                     OrganizeTree(keys, clauses)),
               headings)

BuildFromKeys(lines, headings, keys) ==
    BuildTree(headings, keys, ClauseDicts(lines, headings, keys))

BuildFromHeadings(text, lines, headings) ==
    IF headings = <<>> THEN FallbackTree(text)
    ELSE BuildFromKeys(lines, headings, ClauseKeys(headings))

\* Stage B.  The result is the list of top-level clauses (top, references
\* to clause dicts) and the clause dicts themselves (node); headings is
\* the list Stage A returned.
build_clause_tree(text) ==
    IF IsEmptyInput(text) THEN EmptyTree
    ELSE BuildFromHeadings(text, split(text, "\n"), find_all_headings(text))

segment_clauses(text) == build_clause_tree(text)

\* A variant in which the result list of an earlier call is still there when
\* the next call starts.
CarriedOver(text, held) ==
    [segment_clauses(text) EXCEPT !.top = held.top \o @]

\* A call of segment_clauses while the caller holds the tree of an earlier
\* call: lines, headings, clauses and result are new objects of the call,
\* nothing of the held tree is read or written.
CallResult(text, held) == segment_clauses(text)

(***************************************************************************)
(* risk/risk_engine.py                                                     *)
(*                                                                         *)
(* Rule ids, names, clause type labels, risk levels and the explanatory    *)
(* texts are atomic strings: the code only copies and compares them.       *)
(* Contract types, perspectives and clause bodies are character sequences, *)
(* because the code lower-cases and searches them.                         *)
(***************************************************************************)
\* A compiled pattern is a sequence of tokens.
WordBound == [kind |-> "b", chars |-> <<>>, options |-> {}]

Literal(s) == [kind |-> "literal", chars |-> s, options |-> {}]

AnyChars == [kind |-> "any", chars |-> <<>>, options |-> {}]

Whitespace == [kind |-> "spaces", chars |-> <<>>, options |-> {}]

OneOf(S) == [kind |-> "oneof", chars |-> <<>>, options |-> S]

\* [...]+ for the class of the given characters
CharRun(s) == [kind |-> "run", chars |-> s, options |-> {}]

\* The characters "." does not match.
LineEndSet == {"\n"}

RECURSIVE MatchFrom(_, _, _, _)
\* The tokens of pattern from number j on match t at position i; t is in
\* lower case, as are the literals of the pattern (re.IGNORECASE).
MatchFrom(pattern, j, t, i) ==
    IF j > Len(pattern) THEN TRUE
    ELSE IF pattern[j].kind = "b"
    THEN WordBoundary(t, i) /\ MatchFrom(pattern, j + 1, t, i)
    ELSE IF pattern[j].kind = "literal"
    THEN /\ MatchesAt(t, pattern[j].chars, i)
         /\ MatchFrom(pattern, j + 1, t, i + Len(pattern[j].chars))
    ELSE IF pattern[j].kind = "oneof"
    THEN \E option \in pattern[j].options :
            MatchesAt(t, option, i) /\ MatchFrom(pattern, j + 1, t, i + Len(option))
    ELSE IF pattern[j].kind = "spaces"
    THEN \E k \in (i + 1)..RunEnd(t, i, SpaceSet, TRUE) : MatchFrom(pattern, j + 1, t, k)
    ELSE IF pattern[j].kind = "run"
    THEN \E k \in (i + 1)..RunEnd(t, i, Range(pattern[j].chars), TRUE) :
            MatchFrom(pattern, j + 1, t, k)
    ELSE \E k \in i..RunEnd(t, i, LineEndSet, FALSE) : MatchFrom(pattern, j + 1, t, k)

SearchLower(pattern, t) == \E i \in 1..(Len(t) + 1) : MatchFrom(pattern, 1, t, i)

\* pattern.search(text) is not None, for a pattern compiled with re.IGNORECASE
search(pattern, body) == SearchLower(pattern, lower(body))

FoldToken(token) ==
    [kind |-> token.kind, chars |-> lower(token.chars),
     options |-> {lower(option) : option \in token.options}]

\* re.compile(p, re.IGNORECASE)
compile(p) == [j \in 1..Len(p) |-> FoldToken(p[j])]

\* A list of strings left as it was given.
KeepAll(strings) == strings

\* [c.lower() for c in strings]
LowerAll(strings) == [i \in 1..Len(strings) |-> lower(strings[i])]

\* RiskRule.__init__: None is <<>> for a list and for a dict, which is what
\* "x or {}" and "... if x else []" make of it.
RiskRule(rule_id, name, clause_types, patterns, risk_level, description, why_risky, recommendation, contract_types, perspectives, perspective_risk_levels, perspective_descriptions) ==
    [rule_id |-> rule_id,
     name |-> name,
     clause_types |-> clause_types,
     patterns |-> [k \in 1..Len(patterns) |-> compile(patterns[k])],
     risk_level |-> risk_level,
     perspective_risk_levels |-> perspective_risk_levels,
     perspective_descriptions |-> perspective_descriptions,
     description |-> description,
     why_risky |-> why_risky,
     recommendation |-> recommendation,
     contract_types |-> LowerAll(contract_types),
     perspectives |-> LowerAll(perspectives)]

\* The value a perspective selects from overrides, default without one.
PerspectiveValue(overrides, perspective, default) ==
    IF perspective # None /\ lower(perspective) \in DOMAIN overrides
    THEN overrides[lower(perspective)]
    ELSE default

get_risk_level(rule, perspective) ==
    PerspectiveValue(rule.perspective_risk_levels, perspective, rule.risk_level)

get_description(rule, perspective) ==
    PerspectiveValue(rule.perspective_descriptions, perspective, rule.description)

\* A variant of the scope test that lets no rule through without a value.
NeedsValue(scope, value) ==
    value # None /\ (scope # <<>> => lower(value) \in Range(scope))

\* "if self.X: if not x or x.lower() not in self.X: return False" does not
\* return False.
InScope(scope, value) ==
    scope # <<>> => (value # None /\ lower(value) \in Range(scope))

\* RiskRule.matches
matches(rule, body, clause_types, contract_type, perspective) ==
    /\ ~(/\ rule.clause_types # <<>>
         /\ ~\E ct \in Range(rule.clause_types) : ct \in Range(clause_types))
    /\ InScope(rule.contract_types, contract_type)
    /\ InScope(rule.perspectives, perspective)
    /\ \E k \in 1..Len(rule.patterns) : search(rule.patterns[k], body)

Rule_IND002 ==
    RiskRule("IND002", "Broad Indemnification Scope",
        <<"INDEMNITY">>,
        <<<<WordBound, Literal(<<"i", "n", "d", "e", "m", "n", "i", "f">>), AnyChars,
            WordBound, Literal(<<"a", "l", "l">>), WordBound, AnyChars, WordBound,
            Literal(<<"c", "l", "a", "i", "m", "s">>), WordBound>>,
          <<WordBound, Literal(<<"d", "e", "f", "e", "n", "d">>), AnyChars,
            Literal(<<"a", "g", "a", "i", "n", "s", "t">>), Whitespace,
            Literal(<<"a", "n", "y">>)>>,
          <<WordBound, Literal(<<"i", "n", "d", "e", "m", "n", "i", "f">>), AnyChars,
            WordBound, Literal(<<"a", "n", "y">>), Whitespace, Literal(<<"a", "n", "d">>),
            Whitespace, Literal(<<"a", "l", "l">>), WordBound>>>>,
        "HIGH",
        "Broad indemnification scope covering all claims",
        "You could be responsible even for issues outside your control or caused by the other party.",
        "Limit indemnification to claims arising solely from your negligence, willful misconduct, or breach of contract.",
        None,
        None,
        <<>>,
        <<>>)

Rule_IND003 ==
    RiskRule("IND003", "Attorney Fees Included",
        <<"INDEMNITY">>,
        <<<<WordBound, Literal(<<"i", "n", "c", "l", "u", "d", "i", "n", "g">>), AnyChars,
            Literal(<<"a", "t", "t", "o", "r", "n", "e", "y">>), AnyChars,
            Literal(<<"f", "e", "e", "s">>), WordBound>>,
          <<WordBound, Literal(<<"a", "t", "t", "o", "r", "n", "e", "y">>), AnyChars,
            Literal(<<"f", "e", "e", "s">>), AnyChars, Literal(<<"a", "n", "d">>),
            AnyChars, Literal(<<"c", "o", "s", "t", "s">>), WordBound>>,
          <<WordBound, Literal(<<"l", "e", "g", "a", "l">>), AnyChars,
            Literal(<<"f", "e", "e", "s">>), AnyChars,
            Literal(<<"e", "x", "p", "e", "n", "s", "e", "s">>), WordBound>>>>,
        "MEDIUM",
        "Indemnification includes attorney fees",
        "Legal defense costs can exceed actual damages, significantly increasing your financial exposure.",
        "Request mutual attorney fee provisions or cap on legal costs.",
        None,
        None,
        <<>>,
        <<>>)

Rule_TERM001 ==
    RiskRule("TERM001", "At-Will Termination",
        <<"TERMINATION">>,
        <<<<WordBound, Literal(<<"t", "e", "r", "m", "i", "n", "a", "t", "e">>), AnyChars,
            Literal(<<"a", "t">>), AnyChars, Literal(<<"a", "n", "y">>), AnyChars,
            Literal(<<"t", "i", "m", "e">>), WordBound>>,
          <<WordBound, Literal(<<"t", "e", "r", "m", "i", "n", "a", "t", "i", "o", "n">>),
            AnyChars, Literal(<<"w", "i", "t", "h", "o", "u", "t">>), AnyChars,
            Literal(<<"c", "a", "u", "s", "e">>), WordBound>>,
          <<WordBound, Literal(<<"a", "t">>), AnyChars, Literal(<<"w", "i", "l", "l">>),
            WordBound>>,
          <<WordBound, Literal(<<"f", "o", "r">>), AnyChars, Literal(<<"a", "n", "y">>),
            AnyChars, Literal(<<"r", "e", "a", "s", "o", "n">>), AnyChars,
            Literal(<<"o", "r">>), AnyChars, Literal(<<"n", "o">>), AnyChars,
            Literal(<<"r", "e", "a", "s", "o", "n">>), WordBound>>>>,
        "HIGH",
        "Termination at-will without cause",
        "The other party can end the contract anytime without reason, leaving you with no guarantee of contract duration or ROI.",
        "Require written notice period (e.g., 30-90 days) or limit termination to 'for cause' only.",
        None,
        None,
        (<<"e", "m", "p", "l", "o", "y", "e", "e">> :> "HIGH" @@
         <<"e", "m", "p", "l", "o", "y", "e", "r">> :> "LOW" @@
         <<"r", "e", "c", "e", "i", "v", "e", "r">> :> "MEDIUM" @@
         <<"d", "i", "s", "c", "l", "o", "s", "e", "r">> :> "MEDIUM" @@
         <<"v", "e", "n", "d", "o", "r">> :> "HIGH" @@
         <<"c", "l", "i", "e", "n", "t">> :> "LOW"),
        (<<"e", "m", "p", "l", "o", "y", "e", "e">> :> "Your employer can fire you at any time without cause, leaving you with no job security." @@
         <<"e", "m", "p", "l", "o", "y", "e", "r">> :> "You can terminate employment flexibly when needed, which provides management discretion." @@
         <<"r", "e", "c", "e", "i", "v", "e", "r">> :> "The disclosing party can terminate at-will, potentially cutting off your access to needed information." @@
         <<"v", "e", "n", "d", "o", "r">> :> "The client can end the contract anytime, leaving you with no revenue guarantee." @@
         <<"c", "l", "i", "e", "n", "t">> :> "You maintain flexibility to end the vendor relationship if needed."))

Rule_LAW001 ==
    RiskRule("LAW001", "Exclusive Home-Court Venue",
        <<"GOVERNING_LAW">>,
        <<<<WordBound, Literal(<<"e", "x", "c", "l", "u", "s", "i", "v", "e">>),
            Whitespace,
            OneOf({<<"j", "u", "r", "i", "s", "d", "i", "c", "t", "i", "o", "n">>, <<"v", "e", "n", "u", "e">>}),
            WordBound>>,
          <<WordBound, Literal(<<"s", "u", "b", "m", "i", "t">>), Whitespace,
            Literal(<<"t", "o">>), Whitespace, Literal(<<"t", "h", "e">>), Whitespace,
            Literal(<<"e", "x", "c", "l", "u", "s", "i", "v", "e">>), Whitespace,
            Literal(<<"j", "u", "r", "i", "s", "d", "i", "c", "t", "i", "o", "n">>),
            WordBound>>>>,
        "MEDIUM",
        "Exclusive venue or jurisdiction favors counterparty",
        "Increases cost and risk of litigating away from your home forum.",
        "Negotiate neutral venue or mutual forum selection.",
        <<<<"n", "d", "a">>, <<"s", "e", "r", "v", "i", "c", "e", "s">>, <<"e", "m", "p", "l", "o", "y", "m", "e", "n", "t">>>>,
        None,
        <<>>,
        <<>>)

\* The built-in table, of which the model holds four rules: two without
\* scoping or overrides, one with perspective overrides, one scoped by
\* contract type.
_load_default_rules == <<Rule_IND002, Rule_IND003, Rule_TERM001, Rule_LAW001>>

\* dict.get(key, default)
Get(dict, key, default) == IF key \in DOMAIN dict THEN dict[key] ELSE default

\* The keys load_playbook reads with rule_data[...], in the order it reads them.
RequiredFields ==
    <<"ruleId", "name", "patterns", "riskLevel", "description", "whyRisky",
      "recommendation">>

\* The required keys rule_data lacks, in the order they are read.
MissingFields(rule_data) ==
    SelectSeq(RequiredFields, LAMBDA field : field \notin DOMAIN rule_data)

NoError == [type |-> "none", key |-> ""]

\* The KeyError rule_data[key] raises.
KeyError(key) == [type |-> "KeyError", key |-> key]

\* RiskRule(rule_id=rule_data["ruleId"], ...)
RuleFromData(rule_data) ==
    RiskRule(rule_data["ruleId"], rule_data["name"],
             Get(rule_data, "clauseTypes", <<>>),
             rule_data["patterns"], rule_data["riskLevel"],
             rule_data["description"], rule_data["whyRisky"],
             rule_data["recommendation"],
             Get(rule_data, "contractTypes", None),
             Get(rule_data, "perspectives", None),
             Get(rule_data, "perspectiveRiskLevels", <<>>),
             Get(rule_data, "perspectiveDescriptions", <<>>))

\* A variant of the append that puts the rule in the place of an earlier
\* rule with the same rule_id.
ReplaceRule(rule_list, rule) ==
    IF \E i \in 1..Len(rule_list) : rule_list[i].rule_id = rule.rule_id
    THEN [i \in 1..Len(rule_list) |->
            IF rule_list[i].rule_id = rule.rule_id THEN rule ELSE rule_list[i]]
    ELSE Append(rule_list, rule)

\* self.rules.append(rule)
AppendRule(rule_list, rule) == Append(rule_list, rule)

RECURSIVE LoadLoopSkipping(_, _, _)
\* A variant of the loop that passes over an entry that lacks a key.
LoadLoopSkipping(entries, i, rule_list) ==
    IF i > Len(entries) THEN [rules |-> rule_list, raised |-> NoError]
    ELSE IF MissingFields(entries[i]) # <<>>
    THEN LoadLoopSkipping(entries, i + 1, rule_list)
    ELSE LoadLoopSkipping(entries, i + 1, AppendRule(rule_list, RuleFromData(entries[i])))

RECURSIVE LoadLoop(_, _, _)
\* The loop of load_playbook from entry i on: the rule list it leaves and
\* the exception it raises.
LoadLoop(entries, i, rule_list) ==
    IF i > Len(entries) THEN [rules |-> rule_list, raised |-> NoError]
    ELSE IF MissingFields(entries[i]) # <<>>
    THEN [rules |-> rule_list, raised |-> KeyError(MissingFields(entries[i])[1])]
    ELSE LoadLoop(entries, i + 1, AppendRule(rule_list, RuleFromData(entries[i])))

\* load_playbook on the parsed JSON.
load_playbook(rule_list, playbook_json) ==
    LoadLoop(Get(playbook_json, "rules", <<>>), 1, rule_list)

\* clause.get("id") and clause.get("title") of a clause without the key.
NoValue == "None"

DefaultClauseTypes == <<"GENERAL">>

\* The dict appended to matched_rules.
MatchedRecord(rule, perspective) ==
    [rule_id |-> rule.rule_id,
     name |-> rule.name,
     risk_level |-> get_risk_level(rule, perspective),
     description |-> get_description(rule, perspective),
     why_risky |-> rule.why_risky,
     recommendation |-> rule.recommendation,
     contract_scope |-> rule.contract_types,
     perspective_scope |-> rule.perspectives]

MatchedRecords(fired, perspective) ==
    [k \in 1..Len(fired) |-> MatchedRecord(fired[k], perspective)]

\* matched_rules after the loop over self.rules
MatchedRules(rule_list, body, clause_types, contract_type, perspective) ==
    MatchedRecords(
        SelectSeq(rule_list,
                  LAMBDA rule : matches(rule, body, clause_types, contract_type, perspective)),
        perspective)

\* [r["risk_level"] for r in matched_rules]
RiskLevelsOf(matched_rules) ==
    [k \in 1..Len(matched_rules) |-> matched_rules[k].risk_level]

\* A variant that takes the level of the first matched rule.
FirstRiskLevel(risk_levels) ==
    IF risk_levels = <<>> THEN "LOW" ELSE risk_levels[1]

\* overall_risk of analyze_clause
OverallRisk(risk_levels) ==
    IF "HIGH" \in Range(risk_levels) THEN "HIGH"
    ELSE IF "MEDIUM" \in Range(risk_levels) THEN "MEDIUM"
    ELSE "LOW"

ClauseResult(clause, matched_rules) ==
    [clause_id |-> Get(clause, "id", NoValue),
     clause_title |-> Get(clause, "title", NoValue),
     risk_level |-> OverallRisk(RiskLevelsOf(matched_rules)),
     matched_rules |-> matched_rules,
     risk_count |-> Len(matched_rules)]

analyze_clause(rule_list, clause, contract_type, perspective) ==
    ClauseResult(clause,
        MatchedRules(rule_list, Get(clause, "text", <<>>),
                     Get(clause, "types", DefaultClauseTypes), contract_type, perspective))

\* The number of results with the given risk_level.
CountLevel(results, level) ==
    Cardinality({k \in 1..Len(results) : results[k].risk_level = level})

RECURSIVE Flatten(_)
\* all_matched_rules.extend(...) over the results
Flatten(lists) ==
    IF lists = <<>> THEN <<>>
    ELSE Flatten(SubSeq(lists, 1, Len(lists) - 1)) \o lists[Len(lists)]

HighClausesForHigh == 3

HighClausesForMedium == 1

MediumClausesForMedium == 5

\* A variant that leaves out the test for a single HIGH clause.
OverallByMediumOnly(high_risk_count, medium_risk_count) ==
    IF high_risk_count >= HighClausesForHigh THEN "HIGH"
    ELSE IF medium_risk_count >= MediumClausesForMedium THEN "MEDIUM"
    ELSE "LOW"

\* A variant that looks at the share of MEDIUM clauses of a four-clause
\* contract.
OverallByMajority(high_risk_count, medium_risk_count) ==
    IF high_risk_count >= HighClausesForHigh THEN "HIGH"
    ELSE IF high_risk_count >= HighClausesForMedium
            \/ medium_risk_count >= MediumClausesForMedium - 1 THEN "MEDIUM"
    ELSE "LOW"

\* overall_risk of analyze_contract
ContractOverall(high_risk_count, medium_risk_count) ==
    IF high_risk_count >= HighClausesForHigh THEN "HIGH"
    ELSE IF high_risk_count >= HighClausesForMedium
            \/ medium_risk_count >= MediumClausesForMedium THEN "MEDIUM"
    ELSE "LOW"

ContractResult(clauses, results, contract_type, perspective) ==
    [overall_risk |-> ContractOverall(CountLevel(results, "HIGH"),
                                      CountLevel(results, "MEDIUM")),
     total_clauses |-> Len(clauses),
     high_risk_clauses |-> CountLevel(results, "HIGH"),
     medium_risk_clauses |-> CountLevel(results, "MEDIUM"),
     low_risk_clauses |->
        Cardinality({k \in 1..Len(results) :
                        results[k].risk_level \notin {"HIGH", "MEDIUM"}}),
     clause_analyses |-> results,
     all_flagged_rules |->
        Flatten([k \in 1..Len(results) |-> results[k].matched_rules]),
     context |-> [contract_type |-> contract_type, perspective |-> perspective]]

analyze_contract(rule_list, clauses, contract_type, perspective) ==
    ContractResult(clauses,
        [k \in 1..Len(clauses) |->
            analyze_clause(rule_list, clauses[k], contract_type, perspective)],
        contract_type, perspective)

\* CLAUSE_PATTERNS in the order of the dict: [type, patterns]
CLAUSE_PATTERNS ==
    <<
      [type |-> "INDEMNITY",
       patterns |->
         <<<<WordBound, Literal(<<"i", "n", "d", "e", "m", "n", "i", "f">>),
             OneOf({<<"y">>, <<"i", "c", "a", "t", "i", "o", "n">>, <<"i", "e", "d">>}),
             WordBound>>,
           <<WordBound, Literal(<<"h", "o", "l", "d">>), Whitespace,
             Literal(<<"h", "a", "r", "m", "l", "e", "s", "s">>), WordBound>>,
           <<WordBound, Literal(<<"d", "e", "f", "e", "n", "d">>), AnyChars,
             Literal(<<"a", "g", "a", "i", "n", "s", "t">>), WordBound>>,
           <<WordBound, Literal(<<"l", "i", "a", "b", "l", "e">>), AnyChars,
             Literal(<<"f", "o", "r">>), AnyChars,
             Literal(<<"d", "a", "m", "a", "g", "e", "s">>), WordBound>>,
           <<WordBound, Literal(<<"r", "e", "i", "m", "b", "u", "r", "s", "e">>), AnyChars,
             Literal(<<"l", "o", "s", "s", "e", "s">>), WordBound>>>>],
      [type |-> "TERMINATION",
       patterns |->
         <<<<WordBound, Literal(<<"t", "e", "r", "m", "i", "n", "a", "t", "i", "o", "n">>),
             WordBound>>,
           <<WordBound, Literal(<<"t", "e", "r", "m", "i", "n", "a", "t">>),
             OneOf({<<"e">>, <<"e", "d">>, <<"i", "n", "g">>}), WordBound>>,
           <<WordBound, Literal(<<"e", "n", "d">>), AnyChars,
             Literal(<<"a", "g", "r", "e", "e", "m", "e", "n", "t">>), WordBound>>,
           <<WordBound, Literal(<<"c", "a", "n", "c", "e", "l">>),
             OneOf({<<"l", "a", "t", "i", "o", "n">>, <<>>}), WordBound>>,
           <<WordBound, Literal(<<"w", "i", "t", "h", "d", "r", "a", "w">>), AnyChars,
             Literal(<<"f", "r", "o", "m">>), WordBound>>,
           <<WordBound, Literal(<<"n", "o", "t", "i", "c", "e">>), AnyChars,
             Literal(<<"t", "o">>), AnyChars,
             Literal(<<"t", "e", "r", "m", "i", "n", "a", "t", "e">>), WordBound>>>>],
      [type |-> "PAYMENT",
       patterns |->
         <<<<WordBound, Literal(<<"p", "a", "y", "m", "e", "n", "t">>), WordBound>>,
           <<WordBound, Literal(<<"f", "e", "e">>), OneOf({<<"s">>, <<>>}), WordBound>>,
           <<WordBound,
             Literal(<<"c", "o", "m", "p", "e", "n", "s", "a", "t", "i", "o", "n">>),
             WordBound>>,
           <<WordBound,
             Literal(<<"r", "e", "m", "u", "n", "e", "r", "a", "t", "i", "o", "n">>),
             WordBound>>,
           <<Literal(<<"$">>),
             CharRun(<<"0", "1", "2", "3", "4", "5", "6", "7", "8", "9", ",">>)>>,
           <<WordBound, Literal(<<"i", "n", "v", "o", "i", "c", "e">>), WordBound>>,
           <<WordBound, Literal(<<"d", "u", "e">>), AnyChars,
             Literal(<<"u", "p", "o", "n">>), WordBound>>>>],
      [type |-> "CONFIDENTIALITY",
       patterns |->
         <<<<WordBound,
             Literal(<<"c", "o", "n", "f", "i", "d", "e", "n", "t", "i", "a", "l">>),
             OneOf({<<"i", "t", "y">>, <<>>}), WordBound>>,
           <<WordBound,
             Literal(<<"n", "o", "n", "-", "d", "i", "s", "c", "l", "o", "s", "u", "r", "e">>),
             WordBound>>,
           <<WordBound, Literal(<<"p", "r", "o", "p", "r", "i", "e", "t", "a", "r", "y">>),
             AnyChars, Literal(<<"i", "n", "f", "o", "r", "m", "a", "t", "i", "o", "n">>),
             WordBound>>,
           <<WordBound, Literal(<<"t", "r", "a", "d", "e">>), AnyChars,
             Literal(<<"s", "e", "c", "r", "e", "t">>), WordBound>>,
           <<WordBound, Literal(<<"n", "o", "t">>), AnyChars,
             Literal(<<"d", "i", "s", "c", "l", "o", "s", "e">>), WordBound>>>>],
      [type |-> "LIABILITY",
       patterns |->
         <<<<WordBound, Literal(<<"l", "i", "a", "b", "i", "l", "i", "t", "y">>), WordBound>>,
           <<WordBound, Literal(<<"l", "i", "a", "b", "l", "e">>), WordBound>>,
           <<WordBound, Literal(<<"d", "a", "m", "a", "g", "e", "s">>), WordBound>>,
           <<WordBound, Literal(<<"l", "o", "s", "s">>), OneOf({<<"e", "s">>, <<>>}),
             WordBound>>,
           <<WordBound, Literal(<<"c", "l", "a", "i", "m">>), OneOf({<<"s">>, <<>>}),
             WordBound>>,
           <<WordBound, Literal(<<"l", "i", "m", "i", "t", "a", "t", "i", "o", "n">>),
             AnyChars, Literal(<<"o", "f">>), AnyChars,
             Literal(<<"l", "i", "a", "b", "i", "l", "i", "t", "y">>), WordBound>>>>],
      [type |-> "INTELLECTUAL_PROPERTY",
       patterns |->
         <<<<WordBound,
             Literal(<<"i", "n", "t", "e", "l", "l", "e", "c", "t", "u", "a", "l">>),
             Whitespace, Literal(<<"p", "r", "o", "p", "e", "r", "t", "y">>), WordBound>>,
           <<WordBound, Literal(<<"c", "o", "p", "y", "r", "i", "g", "h", "t">>), WordBound>>,
           <<WordBound, Literal(<<"p", "a", "t", "e", "n", "t">>), WordBound>>,
           <<WordBound, Literal(<<"t", "r", "a", "d", "e", "m", "a", "r", "k">>), WordBound>>,
           <<WordBound, Literal(<<"o", "w", "n", "e", "r", "s", "h", "i", "p">>), AnyChars,
             Literal(<<"o", "f">>), AnyChars, Literal(<<"w", "o", "r", "k">>), WordBound>>,
           <<WordBound, Literal(<<"l", "i", "c", "e", "n", "s", "e">>), WordBound>>>>],
      [type |-> "GOVERNING_LAW",
       patterns |->
         <<<<WordBound, Literal(<<"g", "o", "v", "e", "r", "n", "i", "n", "g">>), Whitespace,
             Literal(<<"l", "a", "w">>), WordBound>>,
           <<WordBound,
             Literal(<<"j", "u", "r", "i", "s", "d", "i", "c", "t", "i", "o", "n">>),
             WordBound>>,
           <<WordBound, Literal(<<"a", "p", "p", "l", "i", "c", "a", "b", "l", "e">>),
             AnyChars, Literal(<<"l", "a", "w">>), WordBound>>,
           <<WordBound, Literal(<<"c", "o", "u", "r", "t">>), OneOf({<<"s">>, <<>>}),
             Whitespace, Literal(<<"o", "f">>), WordBound>>,
           <<WordBound, Literal(<<"l", "a", "w">>), OneOf({<<"s">>, <<>>}), Whitespace,
             Literal(<<"o", "f">>), AnyChars, Literal(<<"s", "t", "a", "t", "e">>),
             WordBound>>>>],
      [type |-> "WARRANTY",
       patterns |->
         <<<<WordBound, Literal(<<"w", "a", "r", "r", "a", "n", "t">>),
             OneOf({<<"y">>, <<"i", "e", "s">>, <<"e", "d">>}), WordBound>>,
           <<WordBound, Literal(<<"r", "e", "p", "r", "e", "s", "e", "n", "t">>),
             OneOf({<<"a", "t", "i", "o", "n">>, <<>>}), OneOf({<<"s">>, <<>>}), WordBound>>,
           <<WordBound, Literal(<<"g", "u", "a", "r", "a", "n", "t", "e", "e">>), WordBound>>,
           <<WordBound, Literal(<<"a", "s">>), Whitespace, Literal(<<"i", "s">>), WordBound>>,
           <<WordBound, Literal(<<"n", "o">>), AnyChars,
             Literal(<<"w", "a", "r", "r", "a", "n", "t", "y">>), WordBound>>>>],
      [type |-> "FORCE_MAJEURE",
       patterns |->
         <<<<WordBound, Literal(<<"f", "o", "r", "c", "e">>), Whitespace,
             Literal(<<"m", "a", "j", "e", "u", "r", "e">>), WordBound>>,
           <<WordBound, Literal(<<"a", "c", "t">>), AnyChars, Literal(<<"o", "f">>),
             AnyChars, Literal(<<"g", "o", "d">>), WordBound>>,
           <<WordBound, Literal(<<"u", "n", "a", "v", "o", "i", "d", "a", "b", "l", "e">>),
             AnyChars,
             Literal(<<"c", "i", "r", "c", "u", "m", "s", "t", "a", "n", "c", "e">>),
             WordBound>>,
           <<WordBound, Literal(<<"b", "e", "y", "o", "n", "d">>), AnyChars,
             Literal(<<"r", "e", "a", "s", "o", "n", "a", "b", "l", "e">>), AnyChars,
             Literal(<<"c", "o", "n", "t", "r", "o", "l">>), WordBound>>>>],
      [type |-> "DISPUTE_RESOLUTION",
       patterns |->
         <<<<WordBound, Literal(<<"d", "i", "s", "p", "u", "t", "e">>), AnyChars,
             Literal(<<"r", "e", "s", "o", "l", "u", "t", "i", "o", "n">>), WordBound>>,
           <<WordBound, Literal(<<"a", "r", "b", "i", "t", "r", "a", "t", "i", "o", "n">>),
             WordBound>>,
           <<WordBound, Literal(<<"m", "e", "d", "i", "a", "t", "i", "o", "n">>), WordBound>>,
           <<WordBound, Literal(<<"l", "i", "t", "i", "g", "a", "t", "i", "o", "n">>),
             WordBound>>,
           <<WordBound, Literal(<<"r", "e", "s", "o", "l", "v", "e">>), AnyChars,
             Literal(<<"d", "i", "s", "p", "u", "t", "e">>), OneOf({<<"s">>, <<>>}),
             WordBound>>>>],
      [type |-> "NON_COMPETE",
       patterns |->
         <<<<WordBound, Literal(<<"n", "o", "n", "-", "c", "o", "m", "p", "e", "t", "e">>),
             WordBound>>,
           <<WordBound, Literal(<<"c", "o", "m", "p", "e", "t", "i", "t", "i", "v", "e">>),
             AnyChars, Literal(<<"a", "c", "t", "i", "v", "i", "t", "y">>), WordBound>>,
           <<WordBound, Literal(<<"r", "e", "s", "t", "r", "i", "c", "t", "i", "v", "e">>),
             AnyChars, Literal(<<"c", "o", "v", "e", "n", "a", "n", "t">>), WordBound>>,
           <<WordBound, Literal(<<"n", "o", "t">>), AnyChars,
             Literal(<<"c", "o", "m", "p", "e", "t", "e">>), WordBound>>>>],
      [type |-> "ASSIGNMENT",
       patterns |->
         <<<<WordBound, Literal(<<"a", "s", "s", "i", "g", "n", "m", "e", "n", "t">>),
             WordBound>>,
           <<WordBound, Literal(<<"a", "s", "s", "i", "g", "n">>), AnyChars,
             Literal(<<"r", "i", "g", "h", "t", "s">>), WordBound>>,
           <<WordBound, Literal(<<"t", "r", "a", "n", "s", "f", "e", "r">>), AnyChars,
             Literal(<<"a", "g", "r", "e", "e", "m", "e", "n", "t">>), WordBound>>,
           <<WordBound, Literal(<<"n", "o", "t">>), AnyChars,
             Literal(<<"a", "s", "s", "i", "g", "n">>), AnyChars,
             Literal(<<"w", "i", "t", "h", "o", "u", "t">>), WordBound>>>>],
      [type |-> "AMENDMENT",
       patterns |->
         <<<<WordBound, Literal(<<"a", "m", "e", "n", "d", "m", "e", "n", "t">>), WordBound>>,
           <<WordBound, Literal(<<"m", "o", "d", "i", "f">>),
             OneOf({<<"y">>, <<"i", "c", "a", "t", "i", "o", "n">>}), WordBound>>,
           <<WordBound, Literal(<<"c", "h", "a", "n", "g", "e">>), AnyChars,
             Literal(<<"t", "e", "r", "m", "s">>), WordBound>>,
           <<WordBound, Literal(<<"v", "a", "r", "i", "e", "d">>), AnyChars,
             Literal(<<"b", "y">>), AnyChars, Literal(<<"w", "r", "i", "t", "i", "n", "g">>),
             WordBound>>>>],
      [type |-> "SEVERABILITY",
       patterns |->
         <<<<WordBound,
             Literal(<<"s", "e", "v", "e", "r", "a", "b", "i", "l", "i", "t", "y">>),
             WordBound>>,
           <<WordBound, Literal(<<"s", "e", "v", "e", "r", "a", "b", "l", "e">>), WordBound>>,
           <<WordBound, Literal(<<"i", "n", "v", "a", "l", "i", "d">>), AnyChars,
             Literal(<<"p", "r", "o", "v", "i", "s", "i", "o", "n">>), WordBound>>,
           <<WordBound,
             Literal(<<"u", "n", "e", "n", "f", "o", "r", "c", "e", "a", "b", "l", "e">>),
             AnyChars, Literal(<<"t", "e", "r", "m">>), WordBound>>>>],
      [type |-> "ENTIRE_AGREEMENT",
       patterns |->
         <<<<WordBound, Literal(<<"e", "n", "t", "i", "r", "e">>), Whitespace,
             Literal(<<"a", "g", "r", "e", "e", "m", "e", "n", "t">>), WordBound>>,
           <<WordBound, Literal(<<"s", "u", "p", "e", "r", "s", "e", "d", "e">>), WordBound>>,
           <<WordBound, Literal(<<"p", "r", "i", "o", "r">>), AnyChars,
             Literal(<<"a", "g", "r", "e", "e", "m", "e", "n", "t">>), WordBound>>,
           <<WordBound, Literal(<<"i", "n", "t", "e", "g", "r", "a", "t", "i", "o", "n">>),
             Whitespace, Literal(<<"c", "l", "a", "u", "s", "e">>), WordBound>>>>]
    >>

TYPE_PRIORITY ==
    <<"INDEMNITY", "TERMINATION", "LIABILITY", "PAYMENT", "CONFIDENTIALITY",
      "INTELLECTUAL_PROPERTY", "GOVERNING_LAW", "DISPUTE_RESOLUTION",
      "NON_COMPETE", "WARRANTY", "FORCE_MAJEURE", "ASSIGNMENT", "AMENDMENT",
      "SEVERABILITY", "ENTIRE_AGREEMENT", "GENERAL">>

(***************************************************************************)
(* classification/clause_classifier.py                                     *)
(*                                                                         *)
(* The weights 2.0 and 1.0 and the scores, which are sums of them, are     *)
(* whole numbers.                                                          *)
(***************************************************************************)
TITLE_WEIGHT == 2

TEXT_WEIGHT == 1

\* What one pattern adds to the score of its clause type.
PatternScore(pattern, title, body) ==
    (IF search(pattern, title) THEN TITLE_WEIGHT ELSE 0)
        + (IF search(pattern, body) THEN TEXT_WEIGHT ELSE 0)

\* A variant that counts a clause type once however many patterns match.
RECURSIVE FlatScore(_, _, _, _)
FlatScore(patterns, k, title, body) ==
    IF k > Len(patterns) THEN 0
    ELSE IF PatternScore(compile(patterns[k]), title, body) > 0 THEN 1
    ELSE FlatScore(patterns, k + 1, title, body)

RECURSIVE TypeScore(_, _, _, _)
\* score after the loop over the patterns of a clause type from number k on
TypeScore(patterns, k, title, body) ==
    IF k > Len(patterns) THEN 0
    ELSE PatternScore(compile(patterns[k]), title, body)
            + TypeScore(patterns, k + 1, title, body)

\* The score of every clause type of CLAUSE_PATTERNS, in dict order.
AllScores(title, body) ==
    [k \in 1..Len(CLAUSE_PATTERNS) |->
        [type |-> CLAUSE_PATTERNS[k].type,
         score |-> TypeScore(CLAUSE_PATTERNS[k].patterns, 1, title, body)]]

\* scores.items(): the clause types with "if score > 0", in insertion order
ScoredItems(all) == SelectSeq(all, LAMBDA kv : kv.score > 0)

\* TYPE_PRIORITY.index(t) if t in TYPE_PRIORITY else len(TYPE_PRIORITY)
PriorityIndex(t) ==
    IF \E k \in 1..Len(TYPE_PRIORITY) : TYPE_PRIORITY[k] = t
    THEN (CHOOSE k \in 1..Len(TYPE_PRIORITY) :
            TYPE_PRIORITY[k] = t /\ \A j \in 1..(k - 1) : TYPE_PRIORITY[j] # t) - 1
    ELSE Len(TYPE_PRIORITY)

\* key=lambda kv: (-kv[1], priority index of kv[0])
ScoreKey(kv) == <<0 - kv.score, PriorityIndex(kv.type)>>

\* sorted(scores.items(), key=...), which is stable
Ordered(items) == SortByKeys(items, [k \in 1..Len(items) |-> ScoreKey(items[k])])

\* [t for t, _ in ordered] or ["GENERAL"]
TypesOrGeneral(ordered) ==
    IF ordered = <<>> THEN <<"GENERAL">>
    ELSE [k \in 1..Len(ordered) |-> ordered[k].type]

\* A variant of the slice that starts at the primary type.
FirstTwo(types) ==
    IF Len(types) > 1 THEN Slice(types, 1, 2) ELSE <<>>

\* types[1:3] if len(types) > 1 else []
SecondaryTypes(types) ==
    IF Len(types) > 1 THEN Slice(types, 2, IF Len(types) < 3 THEN Len(types) ELSE 3)
    ELSE <<>>

ClassificationOf(types) ==
    [primary_type |-> types[1],
     secondary_types |-> SecondaryTypes(types),
     types |-> types]

ClassifyLowered(title, body) ==
    ClassificationOf(TypesOrGeneral(Ordered(ScoredItems(AllScores(title, body)))))

\* ClauseClassifier.classify_types
classify_types(clause_text, clause_title) ==
    ClassifyLowered(lower(clause_title), lower(clause_text))

(***************************************************************************)
(* explainability/llm_handler.py                                           *)
(*                                                                         *)
(* A JSON value is a record with its kind ("str", "int", "list", "dict")   *)
(* and its content.  A reply of the client is a record of the text before  *)
(* its body (lead), the body, and the text after it (trail); the body is   *)
(* a JSON value, a brace-enclosed text that is not JSON ("broken"), or     *)
(* empty ("nothing").                                                      *)
(***************************************************************************)
JsonStr(s) == [kind |-> "str", chars |-> s, items |-> <<>>, n |-> 0, fields |-> <<>>]

JsonInt(n) == [kind |-> "int", chars |-> <<>>, items |-> <<>>, n |-> n, fields |-> <<>>]

JsonList(items) == [kind |-> "list", chars |-> <<>>, items |-> items, n |-> 0, fields |-> <<>>]

JsonDict(fields) == [kind |-> "dict", chars |-> <<>>, items |-> <<>>, n |-> 0, fields |-> fields]

\* A body such as {not json}
JsonBroken == [kind |-> "broken", chars |-> <<>>, items |-> <<>>, n |-> 0, fields |-> <<>>]

\* No body
JsonNothing == [kind |-> "nothing", chars |-> <<>>, items |-> <<>>, n |-> 0, fields |-> <<>>]

\* bool(value)
Truthy(value) ==
    IF value.kind = "str" THEN value.chars # <<>>
    ELSE IF value.kind = "int" THEN value.n # 0
    ELSE IF value.kind = "list" THEN value.items # <<>>
    ELSE DOMAIN value.fields # {}

required_fields == <<"summary", "why_risky", "what_triggers", "example_wording">>

generic_phrases ==
    <<<<"i", " ", "c", "a", "n", "n", "o", "t">>,
      <<"u", "n", "a", "b", "l", "e", " ", "t", "o", " ", "e", "x", "p", "l", "a", "i",
      "n">>,
      <<"n", "o", " ", "i", "n", "f", "o", "r", "m", "a", "t", "i", "o", "n", " ", "p",
      "r", "o", "v", "i", "d", "e", "d">>,
      <<"i", "n", "s", "u", "f", "f", "i", "c", "i", "e", "n", "t", " ", "d", "a", "t",
      "a">>,
      <<"n", "o", " ", "s", "i", "g", "n", "a", "l", "s">>>>

\* "field not in response or not response[field]" for a dict
FieldMissing(fields, field) == field \notin DOMAIN fields \/ ~Truthy(fields[field])

\* a + " " + b + " " + c raises TypeError unless the three are strings.
AreStrings(a, b, c) == a.kind = "str" /\ b.kind = "str" /\ c.kind = "str"

\* (a + " " + b + " " + c).lower()
CombinedText(a, b, c) == lower(a.chars \o <<" ">> \o b.chars \o <<" ">> \o c.chars)

\* "phrase in combined_text" for one of the generic phrases
HasGenericPhrase(combined_text) ==
    \E k \in 1..Len(generic_phrases) : Contains(combined_text, generic_phrases[k])

\* What a call returns or raises.
Returns(value) == [raised |-> FALSE, value |-> value]

Raises == [raised |-> TRUE, value |-> <<>>]

\* None as the result of _validate_output_contract
Invalid == [valid |-> FALSE]

\* The dict _validate_output_contract returns.
Validated(summary, why_risky, what_triggers, example_wording) ==
    [valid |-> TRUE,
     summary |-> strip(summary.chars),
     why_risky |-> strip(why_risky.chars),
     what_triggers |-> what_triggers.items,
     example_wording |-> strip(example_wording.chars)]

\* A variant of the check that takes any combined text.
AnyText(summary, why_risky, what_triggers, example_wording) ==
    Returns(Validated(summary, why_risky, what_triggers, example_wording))

\* _validate_output_contract from the generic phrase check on, for fields
\* that are present and truthy.
CheckText(summary, why_risky, what_triggers, example_wording) ==
    IF ~AreStrings(summary, why_risky, example_wording) THEN Raises
    ELSE IF HasGenericPhrase(CombinedText(summary, why_risky, example_wording))
    THEN Returns(Invalid)
    ELSE Returns(Validated(summary, why_risky, what_triggers, example_wording))

\* _validate_output_contract for a response that is a dict
ValidateDict(fields) ==
    IF \E k \in 1..Len(required_fields) : FieldMissing(fields, required_fields[k])
    THEN Returns(Invalid)
    ELSE IF fields["what_triggers"].kind # "list" THEN Returns(Invalid)
    ELSE CheckText(fields["summary"], fields["why_risky"], fields["what_triggers"],
                   fields["example_wording"])

\* "field not in response or not response[field]" for a response that is
\* not a dict: "in" raises TypeError for an int, is a substring test for a
\* str and a membership test for a list, and response[field] raises
\* TypeError for both.
ValidateOther(response) ==
    IF response.kind = "int" THEN Raises
    ELSE IF response.kind = "str"
    THEN (IF Contains(response.chars, <<"s", "u", "m", "m", "a", "r", "y">>) THEN Raises ELSE Returns(Invalid))
    ELSE IF \E k \in 1..Len(response.items) : response.items[k] = <<"s", "u", "m", "m", "a", "r", "y">>
    THEN Raises
    ELSE Returns(Invalid)

_validate_output_contract(response) ==
    IF response.kind = "dict" THEN ValidateDict(response.fields)
    ELSE ValidateOther(response)

\* k.replace("_", " ")
ReplaceUnderscore(k) == [i \in 1..Len(k) |-> IF k[i] = "_" THEN " " ELSE k[i]]

\* [k.replace("_", " ") for k, v in signals.items() if v], signals being a
\* sequence of [name, value] in dict order
DetectedFacts(signals) ==
    [k \in 1..Len(SelectSeq(signals, LAMBDA kv : kv.value)) |->
        ReplaceUnderscore(SelectSeq(signals, LAMBDA kv : kv.value)[k].name)]

\* x or default
OrDefault(x, default) == IF x = <<>> THEN default ELSE x

_create_fallback_response(structured_risk) ==
    [summary |-> Get(structured_risk, "description", <<"R", "i", "s", "k", " ", "d", "e", "t", "e", "c", "t", "e", "d">>),
     why_risky |-> Get(structured_risk, "why_risky", <<"T", "h", "i", "s", " ", "c", "l", "a", "u", "s", "e", " ", "p", "o", "s", "e",
      "s", " ", "a", " ", "l", "e", "g", "a", "l", " ", "r", "i", "s", "k", ".">>),
     what_triggers |->
        OrDefault(DetectedFacts(Get(structured_risk, "signals", <<>>)),
                  <<<<"R", "i", "s", "k", " ", "p", "a", "t", "t", "e", "r", "n", " ", "m", "a", "t",
      "c", "h", "e", "d">>>>),
     example_wording |->
        OrDefault(Get(structured_risk, "redline_suggestion", <<>>),
                  <<"N", "e", "g", "o", "t", "i", "a", "t", "e", " ", "d", "i", "f", "f", "e", "r",
      "e", "n", "t", " ", "t", "e", "r", "m", "s", " ", "t", "o", " ", "a", "d", "d",
      "r", "e", "s", "s", " ", "t", "h", "e", " ", "i", "d", "e", "n", "t", "i", "f",
      "i", "e", "d", " ", "r", "i", "s", "k", ".">>),
     source |-> "fallback"]

\* validated["source"] = "llm"
LlmResponse(validated) ==
    [summary |-> validated.summary,
     why_risky |-> validated.why_risky,
     what_triggers |-> validated.what_triggers,
     example_wording |-> validated.example_wording,
     source |-> "llm"]

\* The lines after response_json was obtained; an exception is caught by
\* "except Exception".
AfterParse(outcome, structured_risk) ==
    IF outcome.raised THEN _create_fallback_response(structured_risk)
    ELSE IF outcome.value.valid THEN LlmResponse(outcome.value)
    ELSE _create_fallback_response(structured_risk)

\* json.loads(llm_response) succeeds: the reply is one JSON value with
\* nothing but white space around it.
WholeIsJson(reply) ==
    /\ strip(reply.lead) = <<>>
    /\ strip(reply.trail) = <<>>
    /\ reply.body.kind \in {"str", "int", "list", "dict"}

\* re.search(r"\{.*\}", llm_response, re.DOTALL) finds the span from the
\* first "{" to the last "}" of the reply; json.loads takes it when it is
\* the body of the reply and the body is a well-formed object.
SpanIsJson(reply) ==
    /\ reply.body.kind = "dict"
    /\ ~Contains(reply.lead, <<"{">>)
    /\ ~Contains(reply.trail, <<"}">>)

\* The lines from json.loads(llm_response) to the end of the try block.
ParseReply(reply, structured_risk) ==
    IF WholeIsJson(reply) \/ SpanIsJson(reply)
    THEN AfterParse(_validate_output_contract(reply.body), structured_risk)
    ELSE _create_fallback_response(structured_risk)

\* LLMResponseHandler(openai_client).explain_risk_with_llm(structured_risk);
\* openai_client is None ("none"), raises when called ("raises") or returns
\* a reply ("returns").
explain_risk_with_llm(openai_client, structured_risk) ==
    IF openai_client.kind = "none" THEN _create_fallback_response(structured_risk)
    ELSE IF openai_client.kind = "raises" THEN _create_fallback_response(structured_risk)
    ELSE ParseReply(openai_client.reply, structured_risk)

(***************************************************************************)
(* explainability/explainer.py and intelligence/contract_analyzer.py       *)
(*                                                                         *)
(* A clause handed to the analyzer is a record with id, title, text and    *)
(* subclauses, the subclauses being records of the same kind.  The         *)
(* analyzer is built without a playbook and without an LLM client, as the  *)
(* entry function builds it.  The entities of a clause, which no later     *)
(* step reads except the summary, are not carried.                         *)
(***************************************************************************)
\* What a call of the analyzer ends with: a result, or an exception.
CallReturns(result) == [raised |-> "none", result |-> result]

CallRaises(exception) == [raised |-> exception, result |-> <<>>]

\* A variant that reads the text of a clause together with the texts of its
\* subclauses.
TextWithSubclauses(clause) ==
    IF Get(clause, "subclauses", <<>>) = <<>> THEN Get(clause, "text", <<>>)
    ELSE Get(clause, "text", <<>>) \o <<" ">> \o clause.subclauses[1].text

\* text = clause.get("text", "")
ClauseText(clause) == Get(clause, "text", <<>>)

\* The dict appended to enriched_clauses.
EnrichedClause(clause, types_info) ==
    [id |-> clause.id,
     title |-> clause.title,
     text |-> clause.text,
     subclauses |-> clause.subclauses,
     types |-> types_info.types,
     primary_type |-> types_info.primary_type,
     secondary_types |-> types_info.secondary_types]

\* enriched_clauses after the loop
EnrichClauses(clauses) ==
    [k \in 1..Len(clauses) |->
        EnrichedClause(clauses[k],
                       classify_types(ClauseText(clauses[k]), Get(clauses[k], "title", <<>>)))]

\* The entry of issues for one matched rule; without a client
\* explain_risk_with_llm answers with the texts of the rule.
IssueOf(rule) ==
    [rule_id |-> rule.rule_id,
     severity |-> rule.risk_level,
     issue |-> rule.description,
     why_risky |-> rule.why_risky,
     llm_source |-> "fallback"]

\* next((c for c in clauses if c.get("id") == clause_id), {})
FirstWithId(clauses, clause_id) ==
    IF \E k \in 1..Len(clauses) : clauses[k].id = clause_id
    THEN clauses[Min({k \in 1..Len(clauses) : clauses[k].id = clause_id})]
    ELSE <<>>

\* RiskExplainer.explain_clause_risk: the id, the title and the level of
\* the clause and one issue for each matched rule.
explain_clause_risk(clause_analysis, clause) ==
    [clause_id |-> Get(clause, "id", NoValue),
     clause_title |-> Get(clause, "title", NoValue),
     risk_level |-> clause_analysis.risk_level,
     issues |-> [k \in 1..Len(clause_analysis.matched_rules) |->
                    IssueOf(clause_analysis.matched_rules[k])]]

\* clause_explanations: one entry for each clause analysis that is not LOW
ClauseExplanations(clause_analyses, clauses) ==
    [k \in 1..Len(SelectSeq(clause_analyses, LAMBDA a : a.risk_level # "LOW")) |->
        explain_clause_risk(
            SelectSeq(clause_analyses, LAMBDA a : a.risk_level # "LOW")[k],
            FirstWithId(clauses,
                SelectSeq(clause_analyses, LAMBDA a : a.risk_level # "LOW")[k].clause_id))]

\* The recommendations that depend on the number of HIGH and MEDIUM clauses,
\* without the symbols two of them start with.
CountRecommendations(high, medium) ==
    (IF high >= 3
     THEN <<"CRITICAL: Have a lawyer review this contract before signing.",
            "Do not sign without negotiating the high-risk clauses identified.">>
     ELSE IF high >= 1
     THEN <<"Strongly consider legal counsel to address high-risk terms.">>
     ELSE <<>>)
    \o (IF medium >= 5
        THEN <<"Review and negotiate medium-risk clauses to improve overall terms.">>
        ELSE <<>>)

\* The recommendation that depends on the lower-cased perspective.
PerspectiveRecommendations(perspective) ==
    IF perspective \in {<<"e", "m", "p", "l", "o", "y", "e", "e">>, <<"r", "e", "c", "e", "i", "v", "e", "r">>, <<"v", "e", "n", "d", "o", "r">>}
    THEN <<"Remember: the other party drafted this contract to favor their interests. It's normal and expected to negotiate changes.">>
    ELSE IF perspective \in {<<"e", "m", "p", "l", "o", "y", "e", "r">>, <<"d", "i", "s", "c", "l", "o", "s", "e", "r">>, <<"c", "l", "i", "e", "n", "t">>}
    THEN <<"Consider whether these terms might discourage good candidates/partners from signing. Balance protection with fairness.">>
    ELSE <<>>

\* The recommendations that depend on the overall risk, and the two that
\* are always given.
OverallRecommendations(overall_risk) ==
    <<IF overall_risk = "HIGH"
      THEN "Consider requesting a complete contract revision with more balanced terms."
      ELSE IF overall_risk = "MEDIUM"
      THEN "Use the redline suggestions below as negotiation points."
      ELSE "Perform standard due diligence before signing.",
      "Document all negotiated changes in writing before signing.",
      "Consider requesting a side letter addressing the flagged issues.">>

\* A variant that takes a missing perspective for the empty string.
RecommendationsOrEmpty(contract_analysis, context) ==
    CallReturns(
        CountRecommendations(contract_analysis.high_risk_clauses,
                             contract_analysis.medium_risk_clauses)
            \o PerspectiveRecommendations(lower(context.perspective))
            \o OverallRecommendations(contract_analysis.overall_risk))

\* RiskExplainer._generate_overall_recommendations.  The context holds the
\* key "perspective", so context.get("perspective", "") is its value, and
\* None.lower() raises AttributeError.
_generate_overall_recommendations(contract_analysis, context) ==
    IF context.perspective = None THEN CallRaises("AttributeError")
    ELSE CallReturns(
            CountRecommendations(contract_analysis.high_risk_clauses,
                                 contract_analysis.medium_risk_clauses)
                \o PerspectiveRecommendations(lower(context.perspective))
                \o OverallRecommendations(contract_analysis.overall_risk))

\* The dict explain_contract_risk returns, given the recommendations.
ExplanationsOf(contract_analysis, clauses, context, recommendations) ==
    [context |-> context,
     overall_risk_level |-> contract_analysis.overall_risk,
     statistics |->
        [total_clauses |-> contract_analysis.total_clauses,
         high_risk |-> contract_analysis.high_risk_clauses,
         medium_risk |-> contract_analysis.medium_risk_clauses,
         low_risk |-> contract_analysis.low_risk_clauses,
         total_issues |-> Len(contract_analysis.all_flagged_rules)],
     risky_clauses |-> ClauseExplanations(contract_analysis.clause_analyses, clauses),
     overall_recommendations |-> recommendations]

\* The rest of explain_contract_risk once the recommendations were asked for.
ExplainWith(contract_analysis, clauses, context, outcome) ==
    IF outcome.raised # "none" THEN outcome
    ELSE CallReturns(ExplanationsOf(contract_analysis, clauses, context, outcome.result))

\* RiskExplainer.explain_contract_risk
explain_contract_risk(contract_analysis, clauses, context) ==
    ExplainWith(contract_analysis, clauses, context,
                _generate_overall_recommendations(contract_analysis, context))

\* The dict of the guardrail of ContractAnalyzer.analyze_contract.
ParseFailed(contract_type, perspective) ==
    [status |-> "PARSE_FAILED",
     context |-> [contract_type |-> contract_type, perspective |-> perspective],
     clauses |-> <<>>,
     risk_analysis |->
        [overall_risk |-> "UNKNOWN",
         total_clauses |-> 0,
         high_risk_clauses |-> 0,
         medium_risk_clauses |-> 0,
         low_risk_clauses |-> 0,
         clause_analyses |-> <<>>,
         all_flagged_rules |-> <<>>,
         context |-> [contract_type |-> contract_type, perspective |-> perspective]],
     explanations |->
        [overall_risk_level |-> "UNKNOWN",
         statistics |->
            [total_clauses |-> 0, high_risk |-> 0, medium_risk |-> 0, low_risk |-> 0,
             total_issues |-> 0],
         risky_clauses |-> <<>>,
         overall_recommendations |->
            <<"Contract structure could not be parsed automatically.",
              "This may indicate an unusual format or OCR issues.",
              "Manual legal review is strongly recommended.">>],
     summary |->
        [total_clauses |-> 0,
         risk_summary |->
            [overall_risk |-> "UNKNOWN", high_risk_count |-> 0, medium_risk_count |-> 0,
             total_issues |-> 0]]]

\* ContractAnalyzer._generate_summary, without the type counts and entities
_generate_summary(clauses, risk_analysis) ==
    [total_clauses |-> Len(clauses),
     risk_summary |->
        [overall_risk |-> risk_analysis.overall_risk,
         high_risk_count |-> risk_analysis.high_risk_clauses,
         medium_risk_count |-> risk_analysis.medium_risk_clauses,
         total_issues |-> Len(risk_analysis.all_flagged_rules)]]

\* The dict ContractAnalyzer.analyze_contract returns after the pipeline;
\* it has no key "status", which is "" here.
PipelineResult(enriched_clauses, risk_analysis, explanations, contract_type, perspective) ==
    [status |-> "",
     context |-> [contract_type |-> contract_type, perspective |-> perspective],
     clauses |-> enriched_clauses,
     risk_analysis |-> risk_analysis,
     explanations |-> explanations,
     summary |-> _generate_summary(enriched_clauses, risk_analysis)]

\* The lines of ContractAnalyzer.analyze_contract after the call of the
\* explainer.
AfterExplain(enriched_clauses, risk_analysis, outcome, contract_type, perspective) ==
    IF outcome.raised # "none" THEN outcome
    ELSE CallReturns(PipelineResult(enriched_clauses, risk_analysis, outcome.result,
                                    contract_type, perspective))

\* The lines of ContractAnalyzer.analyze_contract after the call of the
\* risk engine.
AfterRisk(enriched_clauses, risk_analysis, contract_type, perspective) ==
    AfterExplain(enriched_clauses, risk_analysis,
        explain_contract_risk(risk_analysis, enriched_clauses,
            [contract_type |-> contract_type, perspective |-> perspective]),
        contract_type, perspective)

\* The lines of ContractAnalyzer.analyze_contract after the enrich loop.
AfterEnrich(enriched_clauses, contract_type, perspective) ==
    AfterRisk(enriched_clauses,
              analyze_contract(_load_default_rules, enriched_clauses, contract_type, perspective),
              contract_type, perspective)

\* A variant without the guardrail.
AnalyzeUnguarded(clauses, contract_type, perspective) ==
    AfterEnrich(EnrichClauses(clauses), contract_type, perspective)

\* ContractAnalyzer().analyze_contract(clauses, contract_type, perspective)
ContractAnalyzer_analyze_contract(clauses, contract_type, perspective) ==
    IF clauses = <<>> THEN CallReturns(ParseFailed(contract_type, perspective))
    ELSE AfterEnrich(EnrichClauses(clauses), contract_type, perspective)

RECURSIVE ClauseTree(_, _)
\* The clause dict with the given id and the dicts of its subclauses, as
\* one value.
ClauseTree(dicts, id) ==
    [id |-> dicts[id].id,
     title |-> dicts[id].title,
     text |-> dicts[id].text,
     subclauses |-> [k \in 1..Len(dicts[id].subclauses) |->
                        ClauseTree(dicts, dicts[id].subclauses[k])]]

\* The list segment_clauses returns, as a list of clause values.
ClauseList(tree) == [k \in 1..Len(tree.top) |-> ClauseTree(tree.node, tree.top[k])]

\* if "status" not in result: result["status"] = "SUCCESS"
WithStatus(outcome) ==
    IF outcome.raised # "none" THEN outcome
    ELSE IF outcome.result.status # "" THEN outcome
    ELSE CallReturns([outcome.result EXCEPT !.status = "SUCCESS"])

\* The dict the entry function returns when the ingestion reports a failure;
\* it is the dict of the guardrail with another message.
IngestionFailed(perspective) == ParseFailed(None, perspective)

\* analyze_contract(file_path, perspective) of contract_analyzer.py, given
\* what ingest_contract returned for the file.
analyze_contract_file(ingestion_result, perspective) ==
    IF ~ingestion_result.success THEN CallReturns(IngestionFailed(perspective))
    ELSE WithStatus(
            ContractAnalyzer_analyze_contract(
                ClauseList(segment_clauses(ingestion_result.text)), None, perspective))

(***************************************************************************)
(* The inputs the model draws from.                                        *)
(***************************************************************************)
Line_H1 ==
    <<"1", ".", " ", "I", "n", "d", "e", "m", "n", "i", "f", "i", "c", "a", "t", "i",
      "o", "n">>

Line_Body1 ==
    <<"P", "a", "r", "t", "y", " ", "s", "h", "a", "l", "l", " ", "i", "n", "d", "e",
      "m", "n", "i", "f", "y", " ", "a", "n", "d", " ", "d", "e", "f", "e", "n", "d",
      " ", "a", "g", "a", "i", "n", "s", "t", " ", "a", "n", "y", " ", "a", "n", "d",
      " ", "a", "l", "l", " ", "c", "l", "a", "i", "m", "s", ".">>

Line_H2 ==
    <<"2", ".", " ", "T", "e", "r", "m", "i", "n", "a", "t", "i", "o", "n">>

Line_H21 ==
    <<"2", ".", "1", " ", "A", "t", "-", "W", "i", "l", "l">>

Line_Body21 ==
    <<"E", "i", "t", "h", "e", "r", " ", "p", "a", "r", "t", "y", " ", "m", "a", "y",
      " ", "t", "e", "r", "m", "i", "n", "a", "t", "e", " ", "a", "t", " ", "a", "n",
      "y", " ", "t", "i", "m", "e", " ", "f", "o", "r", " ", "a", "n", "y", " ", "r",
      "e", "a", "s", "o", "n", ".">>

Line_H211 ==
    <<"2", ".", "1", ".", "1", " ", "N", "o", "t", "i", "c", "e", " ", "P", "e", "r",
      "i", "o", "d">>

Line_H3 ==
    <<"3", ".", " ", "F", "e", "e", "s", ".", " ", "N", "e", "t", " ", "t", "h", "i",
      "r", "t", "y", ".", " ", "N", "o", " ", "s", "e", "t", "o", "f", "f", ".">>

Line_Blank == <<" ", " ">>

\* The lines a text is assembled from.
LinePool ==
    {Line_H1, Line_Body1, Line_H2, Line_H21, Line_Body21, Line_H211, Line_H3, Line_Blank}

\* The five-line scenario text.
ScenarioText ==
    join(<<"\n">>, <<Line_H1, Line_Body1, Line_H2, Line_H21, Line_Body21>>)

Employment == <<"E", "m", "p", "l", "o", "y", "m", "e", "n", "t">>

EMPLOYMENT == <<"E", "M", "P", "L", "O", "Y", "M", "E", "N", "T">>

Nda == <<"n", "d", "a">>

Employee == <<"E", "m", "p", "l", "o", "y", "e", "e">>

employee == <<"e", "m", "p", "l", "o", "y", "e", "e">>

employer == <<"e", "m", "p", "l", "o", "y", "e", "r">>

tenant == <<"t", "e", "n", "a", "n", "t">>

\* A playbook rule scoped to one contract type, with the overrides
\* {employee: HIGH, employer: LOW} and the default MEDIUM; it has no
\* clauseTypes key.
Entry_Scoped ==
    [ruleId |-> "PB001",
     name |-> "Employment Termination",
     patterns |-> <<<<WordBound, Literal(<<"t", "e", "r", "m", "i", "n", "a", "t", "e">>), WordBound>>>>,
     riskLevel |-> "MEDIUM",
     description |-> "Termination right in an employment contract",
     whyRisky |-> "The employment may end early.",
     recommendation |-> "Ask for a notice period.",
     contractTypes |-> <<Employment>>,
     perspectiveRiskLevels |-> (employee :> "HIGH" @@ employer :> "LOW")]

\* A playbook rule whose scoping and override keys are capitalised.
Entry_Capitalised ==
    [ruleId |-> "PB002",
     name |-> "Termination For Any Reason",
     clauseTypes |-> <<"TERMINATION">>,
     patterns |-> <<<<WordBound, Literal(<<"A", "n", "y">>), Whitespace, Literal(<<"R", "e", "a", "s", "o", "n">>), WordBound>>>>,
     riskLevel |-> "LOW",
     description |-> "Termination for any reason",
     whyRisky |-> "No cause is needed.",
     recommendation |-> "Limit termination to cause.",
     perspectives |-> <<Employee>>,
     perspectiveRiskLevels |-> (Employee :> "HIGH")]

\* A playbook rule with the rule_id of a built-in rule.
Entry_SameId ==
    [ruleId |-> "IND002",
     name |-> "Playbook Indemnification",
     clauseTypes |-> <<"INDEMNITY">>,
     patterns |-> <<<<WordBound, Literal(<<"i", "n", "d", "e", "m", "n", "i", "f", "y">>), WordBound>>>>,
     riskLevel |-> "LOW",
     description |-> "Indemnification present",
     whyRisky |-> "Indemnities shift cost.",
     recommendation |-> "Review the indemnity."]

\* rule_data without one key.
Without(rule_data, key) == [k \in DOMAIN rule_data \ {key} |-> rule_data[k]]

\* Entries that lack one required key, and one that lacks two.
MalformedEntries ==
    {Without(Entry_Scoped, RequiredFields[i]) : i \in 1..Len(RequiredFields)}
        \cup {Without(Without(Entry_Scoped, "riskLevel"), "name")}

\* Playbooks whose entries are all well formed.
ValidPlaybooks ==
    {[rules |-> <<Entry_Scoped>>],
     [rules |-> <<Entry_Capitalised, Entry_SameId>>],
     [rules |-> <<Entry_SameId>>]}

\* Playbooks in general: without a "rules" key, empty, well formed, and
\* with a malformed entry between two well-formed ones.
Playbooks ==
    {[version |-> "1.0"], [rules |-> <<>>]}
        \cup ValidPlaybooks
        \cup {[rules |-> <<Entry_SameId, bad, Entry_Capitalised>>] : bad \in MalformedEntries}

Clause_Indemnity ==
    [id |-> "1", title |-> "Indemnification", types |-> <<"INDEMNITY">>,
     text |-> Line_Body1]

Clause_Termination ==
    [id |-> "2", title |-> "Termination", types |-> <<"TERMINATION", "GOVERNING_LAW">>,
     text |-> <<"T", "e", "r", "m", "i", "n", "a", "t", "e", " ", "a", "t", " ", "a", "n", "y",
      " ", "t", "i", "m", "e", " ", "f", "o", "r", " ", "a", "n", "y", " ", "r", "e",
      "a", "s", "o", "n", ";", " ", "O", "h", "i", "o", " ", "h", "a", "s", " ", "e",
      "x", "c", "l", "u", "s", "i", "v", "e", " ", "v", "e", "n", "u", "e", ".">>]

\* A clause without types, id and title.
Clause_Untyped ==
    [text |-> <<"T", "e", "n", "a", "n", "t", " ", "m", "a", "y", " ", "t", "e", "r", "m", "i",
      "n", "a", "t", "e", " ", "a", "t", " ", "a", "n", "y", " ", "t", "i", "m", "e",
      ".">>]

Clause_Fees ==
    [id |-> "4", title |-> "Costs", types |-> <<"INDEMNITY">>,
     text |-> <<"C", "o", "s", "t", "s", " ", "i", "n", "c", "l", "u", "d", "i", "n", "g", " ",
      "a", "t", "t", "o", "r", "n", "e", "y", " ", "f", "e", "e", "s", ".">>]

ClausePool == {Clause_Indemnity, Clause_Termination, Clause_Untyped}

\* One clause that is HIGH, one that is MEDIUM and one that is LOW under the
\* built-in rules.
ContractClausePool == {Clause_Indemnity, Clause_Fees, Clause_Untyped}

ContractTypes == {None, Nda, EMPLOYMENT}

Perspectives == {None, Employee, employer, tenant}

\* Longest text assembled line by line.
MaxLines == 3

\* Most calls of load_playbook on one engine.
MaxLoads == 2

\* Most clauses of a contract.
MaxClauses == 5

MaxSentences == 2

(***************************************************************************)
(* The state machine.  A caller assembles a text line by line (or takes    *)
(* the scenario text) and calls segment_clauses once; a caller of the      *)
(* engine loads playbooks and analyses clauses and contracts.              *)
(***************************************************************************)
VARIABLES
    text,           \* the input text of segment_clauses
    nLines,         \* number of lines the caller has put into text
    pc,             \* "input" while the text is assembled, "done" after the call
    top,            \* the returned list of top-level clauses (references)
    node,           \* the clause dicts: id -> [id, title, text, subclauses]
    headings,       \* the headings the scan pass accepted
    previous,       \* the tree an earlier call on the same text returned
    classified,     \* the clause to classify: title, body, and the result of classify_types
    explanation,    \* the last explain_risk_with_llm call: client, risk and what it returned
    pipeline,       \* the clause list for ContractAnalyzer.analyze_contract and how the call ended
    upload,         \* the extracted text of an uploaded file and how the entry function ended
    rules,          \* RiskEngine.rules
    playbook,       \* the parsed JSON of the last load_playbook call
    raised,         \* the exception the last load_playbook call raised
    loads,          \* number of load_playbook calls
    clause,         \* the clause of the last analyze_clause call
    contract_type,  \* the contract_type of the last analysis
    perspective,    \* the perspective of the last analysis
    analysis,       \* what analyze_clause returned for the current rule list
    contract,       \* the clause list the caller has put together
    report          \* what analyze_contract returned for contract

segVars == <<text, nLines, pc, top, node, headings, previous>>

classVars == <<classified>>

explainVars == <<explanation>>

pipelineVars == <<pipeline, upload>>

engineVars == <<rules, playbook, raised, loads>>

clauseVars == <<clause, analysis>>

contractVars == <<contract, report>>

vars ==
    <<text, nLines, pc, top, node, headings, previous, classified, explanation, pipeline, upload,
      rules, playbook,
      raised, loads,
      clause, contract_type, perspective, analysis, contract, report>>

NoPlaybook == [version |-> "none"]

NoClause == [id |-> NoValue]

NoAnalysis ==
    [clause_id |-> NoValue, clause_title |-> NoValue, risk_level |-> "NONE",
     matched_rules |-> <<>>, risk_count |-> 0]

NoReport == [overall_risk |-> "NONE"]

SegInit ==
    /\ text = <<>>
    /\ nLines = 0
    /\ pc = "input"
    /\ top = <<>>
    /\ node = <<>>
    /\ headings = <<>>
    /\ previous = EmptyTree

\* RiskEngine() without a playbook path.
EngineInit ==
    /\ rules = _load_default_rules
    /\ playbook = NoPlaybook
    /\ raised = NoError
    /\ loads = 0
    /\ clause = NoClause
    /\ contract_type = None
    /\ perspective = None
    /\ analysis = NoAnalysis
    /\ contract = <<>>
    /\ report = NoReport

\* No clause was classified yet.
NoClassification ==
    [title |-> <<>>, body |-> <<>>, sentences |-> 0,
     result |-> [primary_type |-> "NONE", secondary_types |-> <<>>, types |-> <<>>]]

ClassInit == classified = NoClassification

\* explain_risk_with_llm was not called yet.
NoExplanation == [called |-> FALSE]

ExplainInit == explanation = NoExplanation

\* ContractAnalyzer.analyze_contract was not called yet.
NoPipeline == [clauses |-> <<>>, called |-> FALSE]

\* No file was uploaded yet.
NoUpload == [lines |-> <<>>, called |-> FALSE]

PipelineInit == pipeline = NoPipeline /\ upload = NoUpload

Init == SegInit /\ ClassInit /\ ExplainInit /\ PipelineInit /\ EngineInit

AddLine(l) ==
    /\ pc = "input"
    /\ nLines < MaxLines
    /\ text' = IF nLines = 0 THEN l ELSE text \o <<"\n">> \o l
    /\ nLines' = nLines + 1
    /\ UNCHANGED <<pc, top, node, headings, previous, classVars, explainVars, pipelineVars, engineVars, clauseVars,
                   contractVars, contract_type, perspective>>

LoadScenario ==
    /\ pc = "input"
    /\ nLines = 0
    /\ text' = ScenarioText
    /\ nLines' = Len(split(ScenarioText, "\n"))
    /\ UNCHANGED <<pc, top, node, headings, previous, classVars, explainVars, pipelineVars, engineVars, clauseVars,
                   contractVars, contract_type, perspective>>

\* The caller receives the tree r.
Returned(r) ==
    /\ top' = r.top
    /\ node' = r.node
    /\ headings' = r.headings

Segment ==
    /\ pc = "input"
    /\ Returned(segment_clauses(text))
    /\ pc' = "done"
    /\ UNCHANGED <<text, nLines, previous, classVars, explainVars, pipelineVars, engineVars, clauseVars, contractVars,
                   contract_type, perspective>>

\* load_playbook leaves the rule list r.rules and raises r.raised.
Loaded(r) ==
    /\ rules' = r.rules
    /\ raised' = r.raised

LoadPlaybook(pb) ==
    /\ loads < MaxLoads
    /\ loads' = loads + 1
    /\ playbook' = pb
    /\ Loaded(load_playbook(rules, pb))
    /\ analysis' = NoAnalysis
    /\ report' = NoReport
    /\ UNCHANGED <<segVars, classVars, explainVars, pipelineVars, clause, contract_type, perspective, contract>>

AnalyzeClause(c, ct, p) ==
    /\ clause' = c
    /\ contract_type' = ct
    /\ perspective' = p
    /\ analysis' = analyze_clause(rules, c, ct, p)
    /\ UNCHANGED <<segVars, classVars, explainVars, pipelineVars, engineVars, contractVars>>

AddClause(c) ==
    /\ Len(contract) < MaxClauses
    /\ contract' = Append(contract, c)
    /\ report' = NoReport
    /\ UNCHANGED <<segVars, classVars, explainVars, pipelineVars, engineVars, clauseVars, contract_type, perspective>>

AnalyzeContract(ct, p) ==
    /\ contract_type' = ct
    /\ perspective' = p
    /\ report' = analyze_contract(rules, contract, ct, p)
    /\ UNCHANGED <<segVars, classVars, explainVars, pipelineVars, engineVars, clauseVars, contract>>

\* The segmenter.
Next ==
    \/ \E l \in LinePool : AddLine(l)
    \/ LoadScenario
    \/ Segment

Spec == Init /\ [][Next]_vars

\* The engine with well-formed playbooks, under every context.
RiskNext ==
    \/ \E pb \in ValidPlaybooks : LoadPlaybook(pb)
    \/ \E c \in ClausePool, ct \in ContractTypes, p \in Perspectives : AnalyzeClause(c, ct, p)

RiskSpec == Init /\ [][RiskNext]_vars

\* The engine with playbooks in general, without a context.
PlaybookNext ==
    \/ \E pb \in Playbooks : LoadPlaybook(pb)
    \/ \E c \in ClausePool : AnalyzeClause(c, None, None)

PlaybookSpec == Init /\ [][PlaybookNext]_vars

\* Contracts under the built-in rules.
ContractNext ==
    \/ \E c \in ContractClausePool : AddClause(c)
    \/ \E p \in {None, employer} : AnalyzeContract(None, p)

ContractSpec == Init /\ [][ContractNext]_vars

(***************************************************************************)
(* Properties of the segmenter (checked under Spec).                       *)
(***************************************************************************)
Done == pc = "done"

\* The string holds nothing but whitespace (it may be empty).
Blank(s) == \A i \in 1..Len(s) : s[i] \in {" ", "\t", "\n"}

\* The ids of the detected headings.
DetectedIds == {headings[k].clause_id : k \in 1..Len(headings)}

Dotted(id) == \E k \in 1..Len(id) : id[k] = "."

\* The ids a dotted id descends from: its proper prefixes that end before a dot.
AncestorIds(id) == {SubSeq(id, 1, k - 1) : k \in {j \in 1..Len(id) : id[j] = "."}}

\* p of the dotted id p.c
ParentIdOf(id) == CHOOSE p \in AncestorIds(id) : \A a \in AncestorIds(id) : Len(a) <= Len(p)

\* The ids in the subclauses of the clause dict with the given id.
ChildrenOf(id) == IF id \in DOMAIN node THEN Range(node[id].subclauses) ELSE {}

WithChildren(S) == S \cup UNION {ChildrenOf(id) : id \in S}

RECURSIVE Closure(_)
Closure(S) == IF WithChildren(S) = S THEN S ELSE Closure(WithChildren(S))

\* The ids of the clauses of the returned tree, at any depth.
TreeIds == Closure(Range(top))

\* The ids of the returned top-level clauses, in order.
TopIds == [k \in 1..Len(top) |-> node[top[k]].id]

\* C1 (as stated): for every detected heading with a dotted id p.c, if a
\* heading with id p was detected then the returned tree holds node p with
\* p.c among its subclauses; otherwise p.c is not in the returned tree, and
\* it is never a top-level clause.
C1_SubclauseInReturnedTree ==
    Done =>
        \A id \in DetectedIds :
            Dotted(id) =>
                /\ id \notin Range(top)
                /\ IF ParentIdOf(id) \in DetectedIds
                   THEN ParentIdOf(id) \in TreeIds /\ id \in ChildrenOf(ParentIdOf(id))
                   ELSE id \notin TreeIds

\* C1 (amended): for every detected heading with a dotted id p.c, p.c is
\* never a top-level clause; if a heading with id p was detected, p.c is
\* among the subclauses of the clause dict of p, and it is in the returned
\* tree exactly when every ancestor id of p.c was detected; if no heading
\* with id p was detected, p.c is in no subclause list and not in the tree.
C1_SubclauseUnderDetectedParent ==
    Done =>
        \A id \in DetectedIds :
            Dotted(id) =>
                /\ id \notin Range(top)
                /\ IF ParentIdOf(id) \in DetectedIds
                   THEN /\ id \in ChildrenOf(ParentIdOf(id))
                        /\ id \in TreeIds <=> AncestorIds(id) \subseteq DetectedIds
                   ELSE /\ id \notin TreeIds
                        /\ \A p \in DOMAIN node : id \notin ChildrenOf(p)

\* A sub-sub-clause was detected with its parent and sits in the returned tree.
C1_Witness ==
    /\ Done
    /\ \E id \in DetectedIds :
        /\ Dotted(id)
        /\ Dotted(ParentIdOf(id))
        /\ ParentIdOf(id) \in DetectedIds
        /\ id \in TreeIds

\* C2: segmenting the five-line scenario text returns exactly the two
\* top-level clauses "1" and "2", in that order, and clause "2" has exactly
\* the one child "2.1".
C2_ScenarioTree ==
    (Done /\ text = ScenarioText) =>
        /\ TopIds = <<<<"1">>, <<"2">>>>
        /\ node[<<"2">>].subclauses = <<<<"2", ".", "1">>>>

\* C3: segment_clauses returns at least one clause for every text that is
\* not empty or whitespace-only.
C3_NonBlankInputHasClause ==
    (Done /\ ~Blank(text)) => top # <<>>

\* C4: on an empty or whitespace-only text segment_clauses returns the empty
\* list, so in particular not the single fallback clause.
C4_BlankInputHasNoClause ==
    (Done /\ Blank(text)) => top = <<>>

\* A whitespace-only text that is not empty was segmented.
C4_Witness ==
    /\ Done
    /\ text # <<>>
    /\ Blank(text)
    /\ top = <<>>

(***************************************************************************)
(* Properties of the engine.                                               *)
(***************************************************************************)
\* analysis is what analyze_clause returned for clause, contract_type and
\* perspective under the current rule list.
Analysed == analysis.risk_level # "NONE"

MatchedRulesOf == analysis.matched_rules

\* The category labels of a clause.
TypesOf(c) == IF "types" \in DOMAIN c THEN c.types ELSE <<"GENERAL">>

BodyOf(c) == IF "text" \in DOMAIN c THEN c.text ELSE <<>>

SameIgnoringCase(a, b) == upper(a) = upper(b)

\* The list holds the value, compared case-insensitively; an absent value
\* is in no list.
HoldsIgnoringCase(list, value) ==
    value # None /\ \E k \in 1..Len(list) : SameIgnoringCase(list[k], value)

\* The four conditions under which a rule fires on the analysed clause.
ShouldFire(rule) ==
    /\ rule.clause_types = <<>>
        \/ Range(rule.clause_types) \cap Range(TypesOf(clause)) # {}
    /\ rule.contract_types = <<>>
        \/ HoldsIgnoringCase(rule.contract_types, contract_type)
    /\ rule.perspectives = <<>>
        \/ HoldsIgnoringCase(rule.perspectives, perspective)
    /\ \E k \in 1..Len(rule.patterns) : search(rule.patterns[k], BodyOf(clause))

\* The rules that should fire, in rule list order.
ExpectedFired == SelectSeq(rules, ShouldFire)

\* The matched rule is scoped to the one contract type "employment".
ScopedToEmployment(matched) ==
    /\ Len(matched.contract_scope) = 1
    /\ SameIgnoringCase(matched.contract_scope[1], Employment)

\* C5: a rule fires on a clause iff its clause_types is empty or shares a
\* label with the clause's types, its contract_types is empty or holds the
\* contract type (case-insensitively), its perspectives is empty or holds
\* the perspective (case-insensitively), and one of its patterns matches the
\* body: the matched rules are exactly the rules for which the four hold.
\* So a rule scoped to "employment" fires neither under "nda" nor without a
\* contract type.
C5_RuleFiresIffInScope ==
    Analysed =>
        /\ Len(MatchedRulesOf) = Len(ExpectedFired)
        /\ \A k \in 1..Len(MatchedRulesOf) :
            /\ MatchedRulesOf[k].rule_id = ExpectedFired[k].rule_id
            /\ MatchedRulesOf[k].name = ExpectedFired[k].name
        /\ contract_type \in {None, Nda} =>
            \A k \in 1..Len(MatchedRulesOf) : ~ScopedToEmployment(MatchedRulesOf[k])

\* A rule declared for "Employment" fired under "EMPLOYMENT", and some rule
\* did not fire.
C5_Witness ==
    /\ Analysed
    /\ contract_type = EMPLOYMENT
    /\ \E k \in 1..Len(MatchedRulesOf) : MatchedRulesOf[k].rule_id = "PB001"
    /\ Len(MatchedRulesOf) < Len(rules)

\* The rules that fired, in rule list order.
FiredRules ==
    SelectSeq(rules, LAMBDA rule :
        matches(rule, BodyOf(clause), TypesOf(clause), contract_type, perspective))

\* The keys of the rule's perspective_risk_levels that name the perspective.
OverrideKeys(rule) ==
    {key \in DOMAIN rule.perspective_risk_levels :
        perspective # None /\ SameIgnoringCase(key, perspective)}

\* The entry for the perspective if there is one, else the default.
ResolvedLevel(rule) ==
    IF OverrideKeys(rule) # {}
    THEN rule.perspective_risk_levels[CHOOSE key \in OverrideKeys(rule) : TRUE]
    ELSE rule.risk_level

\* C6: the severity reported for a fired rule is its perspective_risk_levels
\* entry for the active perspective when it has one, otherwise its default
\* risk_level.
C6_OverrideForPerspective ==
    Analysed =>
        \A k \in 1..Len(MatchedRulesOf) :
            MatchedRulesOf[k].risk_level = ResolvedLevel(FiredRules[k])

Rank(level) == CASE level = "HIGH" -> 3 [] level = "MEDIUM" -> 2 [] OTHER -> 1

\* C7: the risk_level of a clause is the greatest of the severities of its
\* matched rules under HIGH > MEDIUM > LOW, and LOW without a matched rule.
C7_ClauseLevelIsMaximum ==
    Analysed =>
        IF MatchedRulesOf = <<>> THEN analysis.risk_level = "LOW"
        ELSE /\ \E k \in 1..Len(MatchedRulesOf) :
                    MatchedRulesOf[k].risk_level = analysis.risk_level
             /\ \A k \in 1..Len(MatchedRulesOf) :
                    Rank(MatchedRulesOf[k].risk_level) <= Rank(analysis.risk_level)

\* The first matched rule is LOW, a later one MEDIUM, and the clause is MEDIUM.
C7_Witness ==
    /\ Analysed
    /\ Len(MatchedRulesOf) >= 2
    /\ MatchedRulesOf[1].risk_level = "LOW"
    /\ \E k \in 2..Len(MatchedRulesOf) : MatchedRulesOf[k].risk_level = "MEDIUM"
    /\ analysis.risk_level = "MEDIUM"

Reported == report.overall_risk # "NONE"

\* The number of analysed clauses of the report with the given risk_level.
ClausesAt(level) ==
    Cardinality({k \in 1..Len(report.clause_analyses) :
                    report.clause_analyses[k].risk_level = level})

\* C8: overall_risk is HIGH with at least 3 HIGH clauses; otherwise MEDIUM
\* with at least 1 HIGH clause or at least 5 MEDIUM clauses; otherwise LOW.
\* The report has one analysis per clause of the contract.
C8_ContractLevelByThresholds ==
    Reported =>
        /\ Len(report.clause_analyses) = Len(contract)
        /\ report.overall_risk =
            IF ClausesAt("HIGH") >= 3 THEN "HIGH"
            ELSE IF ClausesAt("HIGH") >= 1 \/ ClausesAt("MEDIUM") >= 5 THEN "MEDIUM"
            ELSE "LOW"

\* One HIGH clause and four MEDIUM clauses gave MEDIUM.
C8_Witness ==
    /\ Reported
    /\ ClausesAt("HIGH") = 1
    /\ ClausesAt("MEDIUM") = 4
    /\ report.overall_risk = "MEDIUM"

\* The fields a playbook entry must have.
MandatoryFields ==
    {"ruleId", "name", "patterns", "riskLevel", "description", "whyRisky", "recommendation"}

EntriesOf(pb) == IF "rules" \in DOMAIN pb THEN pb.rules ELSE <<>>

\* The positions of the entries that lack a mandatory field.
MalformedAt(pb) ==
    {i \in 1..Len(EntriesOf(pb)) : MandatoryFields \ DOMAIN EntriesOf(pb)[i] # {}}

\* C9: a load_playbook call on a playbook with an entry that lacks a
\* mandatory field raises an error that names a field the first such entry
\* lacks; the rule list grows by the entries before that entry only, so
\* neither that entry nor one after it becomes a rule.  A call on a
\* well-formed playbook raises nothing and appends every entry.
C9_MalformedEntryRaises ==
    [][loads' # loads =>
        IF MalformedAt(playbook') = {}
        THEN /\ raised'.type = "none"
             /\ Len(rules') = Len(rules) + Len(EntriesOf(playbook'))
        ELSE /\ raised'.type = "KeyError"
             /\ raised'.key \in
                    MandatoryFields \ DOMAIN EntriesOf(playbook')[Min(MalformedAt(playbook'))]
             /\ Len(rules') = Len(rules) + Min(MalformedAt(playbook')) - 1]_vars

\* A load raised for the missing whyRisky after it had appended one rule.
C9_Witness ==
    /\ raised.type = "KeyError"
    /\ raised.key = "whyRisky"
    /\ MalformedAt(playbook) # {}
    /\ Len(rules) > Len(_load_default_rules)

\* The built-in rules are the head of the rule list.
BuiltInsFirst ==
    /\ Len(rules) >= Len(_load_default_rules)
    /\ SubSeq(rules, 1, Len(_load_default_rules)) = _load_default_rules

\* Two rules with one rule_id that both should fire both have their record
\* among the matched rules, the earlier rule's record first.
SameIdBothKept ==
    Analysed =>
        \A i \in 1..Len(rules), j \in 1..Len(rules) :
            (i < j /\ rules[i].rule_id = rules[j].rule_id
                   /\ ShouldFire(rules[i]) /\ ShouldFire(rules[j])) =>
                \E a \in 1..Len(MatchedRulesOf), b \in 1..Len(MatchedRulesOf) :
                    /\ a < b
                    /\ MatchedRulesOf[a].rule_id = rules[i].rule_id
                    /\ MatchedRulesOf[a].name = rules[i].name
                    /\ MatchedRulesOf[b].rule_id = rules[j].rule_id
                    /\ MatchedRulesOf[b].name = rules[j].name

\* C10: in every state the engine reaches, the built-in rules are the
\* unchanged head of the rule list; no step changes or removes a rule that
\* was in the list; and a playbook rule with the rule_id of a built-in rule
\* is matched beside it, not instead of it.
C10_BuiltInsKept ==
    [][/\ BuiltInsFirst'
       /\ Len(rules') >= Len(rules)
       /\ SubSeq(rules', 1, Len(rules)) = rules
       /\ SameIdBothKept']_vars

\* A built-in rule and a playbook rule with its rule_id both matched.
C10_Witness ==
    /\ Analysed
    /\ \E a \in 1..Len(MatchedRulesOf), b \in 1..Len(MatchedRulesOf) :
        /\ a < b
        /\ MatchedRulesOf[a].rule_id = MatchedRulesOf[b].rule_id
        /\ MatchedRulesOf[a].name # MatchedRulesOf[b].name

(***************************************************************************)
(* Lines that look like headings and are not, and headings at the limits   *)
(* of the clause number range.                                             *)
(***************************************************************************)
Line_Address ==
    <<"7", "5", "0", " ", "U", "n", "i", "v", "e", "r", "s", "i", "t", "y", " ", "A",
      "v", "e", "n", "u", "e", ",", " ", "S", "u", "i", "t", "e", " ", "2", "0", "0">>

Line_Zip ==
    <<"9", "5", "0", "3", "1", " ", "L", "o", "s", " ", "G", "a", "t", "o", "s">>

Line_H100 ==
    <<"1", "0", "0", ".", " ", "D", "e", "f", "i", "n", "i", "t", "i", "o", "n", "s",
      ".", " ", "O", "n", "e", ".", " ", "T", "w", "o", ".">>

Line_H0 ==
    <<"0", ".", " ", "P", "r", "e", "a", "m", "b", "l", "e", ".", " ", "O", "n", "e",
      ".", " ", "T", "w", "o", ".">>

Line_H99 ==
    <<"9", "9", ".", " ", "N", "o", "t", "i", "c", "e", "s", ".", " ", "O", "n", "e",
      ".", " ", "T", "w", "o", ".">>

Line_Fax ==
    <<"2", ".", " ", "N", "o", "t", "i", "c", "e", "s", " ", "b", "y", " ", "F", "a",
      "c", "s", "i", "m", "i", "l", "e", ".", " ", "O", "n", "e", ".", " ", "T", "w",
      "o", ".">>

Line_Signed ==
    <<"1", ".", " ", "S", "i", "g", "n", "e", "d", " ", "/", "s", "/", " ", "J", "o",
      "h", "n", ".", " ", "O", "n", "e", ".", " ", "T", "w", "o", ".">>

\* A heading line of 118 characters whose title ends in "Road" after the
\* first 100 characters.
Line_LongRoad ==
    <<"1", ".", " ", "N", "o", "t", "i", "c", "e", "s", " ", "a", "n", "d", " ", "o",
      "t", "h", "e", "r", " ", "c", "o", "m", "m", "u", "n", "i", "c", "a", "t", "i",
      "o", "n", "s", " ", "s", "e", "n", "t", " ", "t", "o", " ", "t", "h", "e", " ",
      "r", "e", "c", "i", "p", "i", "e", "n", "t", " ", "a", "t", " ", "t", "h", "e",
      " ", "r", "e", "g", "i", "s", "t", "e", "r", "e", "d", " ", "o", "f", "f", "i",
      "c", "e", " ", "l", "o", "c", "a", "t", "e", "d", " ", "o", "n", " ", "t", "h",
      "e", " ", "M", "a", "i", "n", " ", "R", "o", "a", "d", ".", " ", "O", "n", "e",
      ".", " ", "T", "w", "o", ".">>

NoisePool ==
    {Line_Address, Line_Zip, Line_H100, Line_H0, Line_H99, Line_Fax, Line_Signed,
     Line_LongRoad}

\* The segmenter on address blocks, signature lines and numbered lines.
NoiseNext ==
    \/ \E l \in NoisePool : AddLine(l)
    \/ Segment

NoiseSpec == Init /\ [][NoiseNext]_vars

(***************************************************************************)
(* Properties of the heading filter.                                       *)
(***************************************************************************)
\* The lines of the segmented text.
InputLines == split(text, "\n")

\* The digits a line starts with, after its leading whitespace.
LeadingDigits(ln) == Slice(strip(ln), 1, RunEnd(strip(ln), 1, DigitSet, TRUE) - 1)

\* The line starts with a number that is not in 1..99.
LeadsOutOfRange(ln) ==
    LeadingDigits(ln) # <<>> /\ ParseInt(LeadingDigits(ln)) \notin 1..99

\* The heading was detected on line k (1-based) of the text.
DetectedAt(k) == \E h \in 1..Len(headings) : headings[h].line_index = k - 1

\* The returned clause with this id is the fallback clause or was built from
\* a detected heading whose line passes the test.
BuiltFromHeading(id, LineTest(_)) ==
    \/ headings = <<>>
    \/ \E h \in 1..Len(headings) :
        headings[h].clause_id = id /\ LineTest(headings[h].line)

InRangeLine(ln) == ~LeadsOutOfRange(ln)

\* C11: a line whose leading number is outside 1..99 is never detected as a
\* heading, and every clause of the returned tree was built from a heading
\* line whose leading number, if it has one, is in 1..99.
C11_OutOfRangeNeverHeading ==
    Done =>
        /\ \A k \in 1..Len(InputLines) : LeadsOutOfRange(InputLines[k]) => ~DetectedAt(k)
        /\ \A id \in TreeIds : BuiltFromHeading(id, InRangeLine)

\* A text with the line "100. Definitions..." and the heading 99 was
\* segmented: 99 is a clause, and line 100 is not a heading.
C11_Witness ==
    /\ Done
    /\ \E k \in 1..Len(InputLines) : InputLines[k] = Line_H100
    /\ \E k \in 1..Len(InputLines) : InputLines[k] = Line_H99 /\ DetectedAt(k)
    /\ <<"9", "9">> \in TreeIds

\* The address and contact terms of the acceptance test.
AddressTerms ==
    {<<"R", "o", "a", "d">>, <<"A", "v", "e", "n", "u", "e">>, <<"F", "a", "c", "s", "i", "m", "i", "l", "e">>, <<"A", "t", "t", "e", "n", "t", "i", "o", "n">>, <<"Z", "i", "p">>}

SignatureMark == <<"/", "s", "/">>

\* The line holds a word of the non-heading vocabulary, in any case, or the
\* signature mark.
HoldsVocabulary(ln) ==
    \/ AnyKeyword(upper(ln))
    \/ Contains(ln, SignatureMark)

\* C12: a line that matches the heading grammar and holds address, contact,
\* signature or document-artifact vocabulary is never detected as a heading,
\* and no clause of the returned tree has a title that contains one of the
\* terms Road, Avenue, Facsimile, Attention, Zip.
C12_NoVocabularyInHeadings ==
    Done =>
        /\ \A k \in 1..Len(InputLines) :
            (CLAUSE_HEADING_REGEX(strip(InputLines[k])).matched
                /\ HoldsVocabulary(InputLines[k])) => ~DetectedAt(k)
        /\ \A id \in TreeIds, term \in AddressTerms : ~Contains(node[id].title, term)

(***************************************************************************)
(* Top-level clauses out of order, substantial and not.                    *)
(***************************************************************************)
Line_H10s ==
    <<"1", "0", ".", " ", "T", "a", "x", "e", "s", ".", " ", "D", "u", "e", " ", "n",
      "o", "w", ".", " ", "N", "o", " ", "o", "f", "f", "s", "e", "t", ".">>

Line_H2s ==
    <<"2", ".", " ", "T", "e", "r", "m", ".", " ", "O", "n", "e", " ", "y", "e", "a",
      "r", ".", " ", "N", "o", " ", "r", "e", "n", "e", "w", "a", "l", ".">>

Line_H1s ==
    <<"1", ".", " ", "S", "c", "o", "p", "e", ".", " ", "A", "l", "l", " ", "w", "o",
      "r", "k", ".", " ", "N", "o", " ", "l", "i", "m", "i", "t", "s", ".">>

Line_H4 ==
    <<"4", ".", " ", "N", "o", "t", "i", "c", "e", "s">>

Line_H5 ==
    <<"5", ".", " ", "W", "a", "i", "v", "e", "r", ".", " ", "I", "n", " ", "w", "r",
      "i", "t", "i", "n", "g", " ", "o", "n", "l", "y", ".">>

Line_BodyMail ==
    <<"S", "e", "n", "t", " ", "b", "y", " ", "r", "e", "g", "i", "s", "t", "e", "r",
      "e", "d", " ", "m", "a", "i", "l", ".">>

OrderPool == {Line_H10s, Line_H2s, Line_H1s, Line_H4, Line_H5, Line_BodyMail}

\* The segmenter on top-level clauses in any order.
OrderNext ==
    \/ \E l \in OrderPool : AddLine(l)
    \/ Segment

OrderSpec == Init /\ [][OrderNext]_vars

(***************************************************************************)
(* Properties of the sort and of the integrity step.                       *)
(***************************************************************************)
\* The clause dicts as they enter apply_integrity_rules.
EnteringDicts ==
    OrganizeTree(ClauseKeys(headings),
                 ClauseDicts(InputLines, headings, ClauseKeys(headings)))

\* The sorted top-level list that enters apply_integrity_rules.
EnteringTop == SortByClauseKey(TopLevel(ClauseKeys(headings)))

\* The integrity step ran on a list of clauses.
Merged == Done /\ headings # <<>>

\* C13: top-level clauses with purely numeric ids are returned in ascending
\* integer order, whatever the order of their headings in the text.
C13_NumericIdsAscending ==
    Done =>
        \A i \in 1..Len(top), j \in 1..Len(top) :
            (i < j /\ isdigit(TopIds[i]) /\ isdigit(TopIds[j])) =>
                ParseInt(TopIds[i]) <= ParseInt(TopIds[j])

\* The headings 10, 2, 1, each substantial, were found in this order and
\* are returned as 1, 2, 10.
C13_Witness ==
    /\ Done
    /\ HeadingIds(headings) = <<<<"1", "0">>, <<"2">>, <<"1">>>>
    /\ TopIds = <<<<"1">>, <<"2">>, <<"1", "0">>>>

\* The entering clause at position i is not substantial.
Slight(i) == ~IsSubstantial(EnteringDicts[EnteringTop[i]])

\* A clause before position i is kept.
KeptBefore(i) == \E j \in 1..(i - 1) : ~Slight(j)

\* C19: a non-substantial top-level clause with no kept clause before it is
\* in the output of the integrity step, as it entered.
C19_LeadingSlightClauseKept ==
    Merged =>
        \A i \in 1..Len(EnteringTop) :
            (Slight(i) /\ ~KeptBefore(i)) =>
                /\ EnteringTop[i] \in Range(top)
                /\ node[EnteringTop[i]] = EnteringDicts[EnteringTop[i]]

RECURSIVE FoldedAfter(_)
\* The texts of the non-substantial clauses that follow position i without
\* a kept clause in between, each after one space.
FoldedAfter(i) ==
    IF i + 1 > Len(EnteringTop) \/ ~Slight(i + 1) THEN <<>>
    ELSE <<" ">> \o EnteringDicts[EnteringTop[i + 1]].text \o FoldedAfter(i + 1)

\* C20: every non-substantial top-level clause with a kept clause before it
\* is removed from the output, and the text of every kept clause is its own
\* text followed by the texts of the non-substantial clauses after it, up
\* to the next kept clause, in order, each after one space.
C20_SlightClausesFolded ==
    Merged =>
        \A i \in 1..Len(EnteringTop) :
            IF Slight(i)
            THEN KeptBefore(i) => EnteringTop[i] \notin Range(top)
            ELSE /\ EnteringTop[i] \in Range(top)
                 /\ node[EnteringTop[i]].text =
                        EnteringDicts[EnteringTop[i]].text \o FoldedAfter(i)

\* Two non-substantial clauses, the second with text, were folded into the
\* kept clause before them.
C20_Witness ==
    /\ Merged
    /\ \E i \in 1..Len(EnteringTop) :
        /\ ~Slight(i)
        /\ i + 2 <= Len(EnteringTop)
        /\ Slight(i + 1)
        /\ Slight(i + 2)
        /\ EnteringDicts[EnteringTop[i + 2]].text # <<>>
        /\ EnteringTop[i + 1] \notin Range(top)
        /\ EnteringTop[i + 2] \notin Range(top)

(***************************************************************************)
(* A second call on the same text.                                         *)
(***************************************************************************)
\* The caller keeps the tree of the first call and calls segment_clauses on
\* the same text again.
SegmentAgain ==
    /\ pc = "done"
    /\ previous' = [top |-> top, node |-> node, headings |-> headings]
    /\ Returned(CallResult(text, previous'))
    /\ pc' = "again"
    /\ UNCHANGED <<text, nLines, classVars, explainVars, pipelineVars, engineVars, clauseVars, contractVars,
                   contract_type, perspective>>

\* The segmenter called twice.
RepeatNext ==
    \/ \E l \in OrderPool : AddLine(l)
    \/ LoadScenario
    \/ Segment
    \/ SegmentAgain

RepeatSpec == Init /\ [][RepeatNext]_vars

RECURSIVE Subtree(_, _)
\* The clause with the given id as a nested value: id, title, text and the
\* subtrees of its subclauses, in order.
Subtree(dicts, id) ==
    [id |-> dicts[id].id,
     title |-> dicts[id].title,
     text |-> dicts[id].text,
     subclauses |-> [k \in 1..Len(dicts[id].subclauses) |->
                        Subtree(dicts, dicts[id].subclauses[k])]]

\* A returned tree as a nested value.
Structure(tree) == [k \in 1..Len(tree.top) |-> Subtree(tree.node, tree.top[k])]

Again == pc = "again"

NoContext == contract_type = None /\ perspective = None

\* The rule has no contract_types and no perspectives scoping.
Unscoped(rule) == rule.contract_types = <<>> /\ rule.perspectives = <<>>

\* The category and the body of the analysed clause match the rule.
CategoryAndBodyMatch(rule) ==
    /\ rule.clause_types = <<>>
        \/ Range(rule.clause_types) \cap Range(TypesOf(clause)) # {}
    /\ \E k \in 1..Len(rule.patterns) : search(rule.patterns[k], BodyOf(clause))

\* The rule is among the matched rules with the given severity.
MatchedAt(rule, level) ==
    \E k \in 1..Len(MatchedRulesOf) :
        /\ MatchedRulesOf[k].rule_id = rule.rule_id
        /\ MatchedRulesOf[k].name = rule.name
        /\ MatchedRulesOf[k].risk_level = level

\* C16: when analyze_clause is called with no contract type and no
\* perspective, every rule without contract_types and perspectives scoping
\* whose category and patterns match the clause fires at its default
\* risk_level; on a clause typed INDEMNITY whose body matches the patterns
\* of IND002 the built-in rule IND002 fires at HIGH and the clause is HIGH.
C16_UnscopedRulesFireWithoutContext ==
    (Analysed /\ NoContext) =>
        /\ \A r \in 1..Len(rules) :
            (Unscoped(rules[r]) /\ CategoryAndBodyMatch(rules[r])) =>
                MatchedAt(rules[r], rules[r].risk_level)
        /\ ("INDEMNITY" \in Range(TypesOf(clause)) /\ CategoryAndBodyMatch(Rule_IND002)) =>
                /\ MatchedAt(Rule_IND002, "HIGH")
                /\ analysis.risk_level = "HIGH"

\* The indemnity clause was analysed without a context: IND002 fired at
\* HIGH and the clause is HIGH.
C16_Witness ==
    /\ Analysed
    /\ NoContext
    /\ clause = Clause_Indemnity
    /\ MatchedAt(Rule_IND002, "HIGH")
    /\ analysis.risk_level = "HIGH"

(***************************************************************************)
(* The classifier.                                                         *)
(***************************************************************************)
Title_Indemnification == <<"I", "n", "d", "e", "m", "n", "i", "f", "i", "c", "a", "t", "i", "o", "n">>

Title_Termination == <<"T", "e", "r", "m", "i", "n", "a", "t", "i", "o", "n">>

Title_Fees == <<"F", "E", "E", "S">>

Title_General == <<"G", "e", "n", "e", "r", "a", "l">>

Title_Liability == <<"L", "i", "m", "i", "t", "a", "t", "i", "o", "n", " ", "o", "f", " ", "L", "i",
      "a", "b", "i", "l", "i", "t", "y">>

TitlePool ==
    {Title_Indemnification, Title_Termination, Title_Fees, Title_General, Title_Liability}

Sentences ==
    {Line_Body1,
     <<"P", "a", "y", " ", "t", "h", "e", " ", "f", "e", "e", ".">>,
     <<"T", "r", "a", "d", "e", " ", "s", "e", "c", "r", "e", "t", " ", "l", "i", "c",
      "e", "n", "s", "e", " ", "a", "s", " ", "i", "s", ".">>}

\* The caller names the title of the clause to classify.
SetTitle(title) ==
    /\ classified = NoClassification
    /\ classified' = [classified EXCEPT !.title = title]
    /\ UNCHANGED <<segVars, explainVars, pipelineVars, engineVars, clauseVars, contractVars, contract_type, perspective>>

\* The caller adds a sentence the body does not hold yet to the body of the
\* clause to classify.
AddSentence(s) ==
    /\ classified.result = NoClassification.result
    /\ classified.sentences < MaxSentences
    /\ ~Contains(classified.body, s)
    /\ classified' =
            [classified EXCEPT
                !.body = IF @ = <<>> THEN s ELSE @ \o <<" ">> \o s,
                !.sentences = @ + 1]
    /\ UNCHANGED <<segVars, explainVars, pipelineVars, engineVars, clauseVars, contractVars, contract_type, perspective>>

Classify ==
    /\ classified.result = NoClassification.result
    /\ classified' =
            [classified EXCEPT !.result = classify_types(classified.body, classified.title)]
    /\ UNCHANGED <<segVars, explainVars, pipelineVars, engineVars, clauseVars, contractVars, contract_type, perspective>>

\* The classifier on a title and a body of up to MaxSentences sentences.
ClassifyNext ==
    \/ \E title \in TitlePool : SetTitle(title)
    \/ \E s \in Sentences : AddSentence(s)
    \/ Classify

ClassifySpec == Init /\ [][ClassifyNext]_vars

Classified == classified.result.primary_type # "NONE"

TypesFound == classified.result.types

\* The patterns of the clause type that match the string.
MatchingPatterns(k, s) ==
    {p \in 1..Len(CLAUSE_PATTERNS[k].patterns) :
        search(compile(CLAUSE_PATTERNS[k].patterns[p]), s)}

\* 2 for each pattern that matches the title plus 1 for each pattern that
\* matches the body.
ExpectedScore(k) ==
    2 * Cardinality(MatchingPatterns(k, classified.title))
        + Cardinality(MatchingPatterns(k, classified.body))

\* The score of a clause type by name.
ScoreOf(t) ==
    ExpectedScore(CHOOSE k \in 1..Len(CLAUSE_PATTERNS) : CLAUSE_PATTERNS[k].type = t)

ScoredTypes ==
    {CLAUSE_PATTERNS[k].type : k \in {j \in 1..Len(CLAUSE_PATTERNS) : ExpectedScore(j) > 0}}

\* The fixed priority of the categories, highest first.
StatedPriority ==
    <<"INDEMNITY", "TERMINATION", "LIABILITY", "PAYMENT", "CONFIDENTIALITY",
      "INTELLECTUAL_PROPERTY", "GOVERNING_LAW", "DISPUTE_RESOLUTION", "NON_COMPETE",
      "WARRANTY", "FORCE_MAJEURE", "ASSIGNMENT", "AMENDMENT", "SEVERABILITY",
      "ENTIRE_AGREEMENT">>

RankOf(t) == CHOOSE k \in 1..Len(StatedPriority) : StatedPriority[k] = t

\* C14: the types classify_types returns are, GENERAL aside, exactly the
\* categories with a positive score, a score being 2 for each pattern of the category that
\* matches the title plus 1 for each that matches the body; they are in
\* descending order of score, equal scores in the order of the fixed
\* priority; the scenario clause titled "Indemnification" has the primary
\* type INDEMNITY.
C14_TypesByWeightedScore ==
    Classified =>
        /\ Range(TypesFound) \ {"GENERAL"} = ScoredTypes
        /\ \A i \in 1..Len(TypesFound), j \in 1..Len(TypesFound) :
            i < j =>
                \/ ScoreOf(TypesFound[i]) > ScoreOf(TypesFound[j])
                \/ /\ ScoreOf(TypesFound[i]) = ScoreOf(TypesFound[j])
                   /\ RankOf(TypesFound[i]) < RankOf(TypesFound[j])
        /\ (classified.title = Title_Indemnification /\ classified.body = Line_Body1) =>
                classified.result.primary_type = "INDEMNITY"

\* The position of the clause type in CLAUSE_PATTERNS.
TableIndex(t) == CHOOSE k \in 1..Len(CLAUSE_PATTERNS) : CLAUSE_PATTERNS[k].type = t

\* A category scored from title and body together, and two categories with
\* equal scores are returned in the order of the priority, which is not
\* their order in the pattern table.
C14_Witness ==
    /\ Classified
    /\ Len(TypesFound) >= 3
    /\ ScoreOf(TypesFound[1]) >= 4
    /\ \E i \in 1..Len(TypesFound), j \in 1..Len(TypesFound) :
        /\ i < j
        /\ ScoreOf(TypesFound[i]) = ScoreOf(TypesFound[j])
        /\ TableIndex(TypesFound[i]) > TableIndex(TypesFound[j])

\* C15: the types list of a classification is never empty and has no
\* duplicates, primary_type is types[0], secondary_types are the next at
\* most two entries of types and never hold the primary type; types is
\* ["GENERAL"] when no category scores, and GENERAL is never returned with
\* another category.
C15_TypesNeverEmpty ==
    Classified =>
        /\ TypesFound # <<>>
        /\ \A i \in 1..Len(TypesFound), j \in 1..Len(TypesFound) :
            i # j => TypesFound[i] # TypesFound[j]
        /\ classified.result.primary_type = TypesFound[1]
        /\ classified.result.secondary_types =
                [k \in 1..Min({2, Len(TypesFound) - 1}) |-> TypesFound[k + 1]]
        /\ classified.result.primary_type \notin Range(classified.result.secondary_types)
        /\ ScoredTypes = {} => TypesFound = <<"GENERAL">>
        /\ "GENERAL" \in Range(TypesFound) => TypesFound = <<"GENERAL">>

\* A clause with four or more categories was classified: two of them are
\* secondary.
C15_Witness ==
    /\ Classified
    /\ Len(TypesFound) >= 4
    /\ Len(classified.result.secondary_types) = 2

(***************************************************************************)
(* explain_risk_with_llm on a detected risk and a client                   *)
(***************************************************************************)
\* A field the reply does not have.
Absent == [kind |-> "absent", chars |-> <<>>, items |-> <<>>, n |-> 0, fields |-> <<>>]

FieldNames == {"summary", "why_risky", "what_triggers", "example_wording"}

\* The JSON object with the given values for the four fields.
ReplyObject(s, w, t, e) ==
    JsonDict([f \in {g \in FieldNames :
                        (CASE g = "summary" -> s [] g = "why_risky" -> w
                           [] g = "what_triggers" -> t [] OTHER -> e) # Absent} |->
                CASE f = "summary" -> s [] f = "why_risky" -> w
                  [] f = "what_triggers" -> t [] OTHER -> e])

SummaryPool ==
    {Absent,
     JsonStr(<<>>),
     JsonStr(<<" ", "E", "m", "p", "l", "o", "y", "e", "r", " ", "m", "a", "y", " ", "e", "n",
      "d", " ", "i", "t", ".", " ">>),
     JsonStr(<<"U", "n", "a", "b", "l", "e", " ", "t", "o", " ", "e", "x", "p", "l", "a", "i",
      "n", ".">>),
     JsonStr(<<"Y", "o", "u", " ", "a", "n", "d", " ", "I">>),
     JsonInt(7)}

WhyRiskyPool ==
    {Absent,
     JsonStr(<<"C", "a", "n", "n", "o", "t", " ", "b", "e", " ", "w", "a", "i", "v", "e", "d",
      ".">>),
     JsonStr(<<"N", "o", " ", "j", "o", "b", " ", "s", "e", "c", "u", "r", "i", "t", "y", ".">>)}

WhatTriggersPool ==
    {Absent,
     JsonList(<<>>),
     JsonList(<<<<"a", "t", " ", "w", "i", "l", "l">>>>),
     JsonStr(<<"a", "t", " ", "w", "i", "l", "l">>)}

ExampleWordingPool ==
    {Absent,
     JsonStr(<<"G", "i", "v", "e", " ", "n", "o", "t", "i", "c", "e", ".">>),
     JsonStr(<<"I", "N", "S", "U", "F", "F", "I", "C", "I", "E", "N", "T", " ", "D", "A", "T",
      "A">>)}

ObjectPool ==
    {ReplyObject(s, w, t, e) :
        s \in SummaryPool, w \in WhyRiskyPool, t \in WhatTriggersPool, e \in ExampleWordingPool}

\* {"summary": " Employer may end it. ", "why_risky": "No job security.",
\*  "what_triggers": ["at will"], "example_wording": "Give notice."}
GoodObject ==
    ReplyObject(JsonStr(<<" ", "E", "m", "p", "l", "o", "y", "e", "r", " ", "m", "a", "y", " ", "e", "n",
      "d", " ", "i", "t", ".", " ">>), JsonStr(<<"N", "o", " ", "j", "o", "b", " ", "s", "e", "c", "u", "r", "i", "t", "y", ".">>),
                JsonList(<<<<"a", "t", " ", "w", "i", "l", "l">>>>), JsonStr(<<"G", "i", "v", "e", " ", "n", "o", "t", "i", "c", "e", ".">>))

\* A reply that is its body and nothing else.
Bare(body) == [lead |-> <<>>, body |-> body, trail |-> <<>>]

ReplyPool ==
    {Bare(o) : o \in ObjectPool}
        \cup {Bare(JsonInt(7)), Bare(JsonStr(<<"o", "k">>)), Bare(JsonStr(<<"s", "u", "m", "m", "a", "r", "y">>)),
              Bare(JsonList(<<<<"s", "u", "m", "m", "a", "r", "y">>>>)), Bare(JsonList(<<>>)), Bare(JsonBroken),
              Bare(JsonNothing),
              [lead |-> <<"S", "o", "r", "r", "y", ",", " ", "n", "o", " ", "a", "n", "s", "w", "e", "r",
      ".">>, body |-> JsonNothing, trail |-> <<>>],
              [lead |-> <<" ", " ">>, body |-> GoodObject, trail |-> <<" ">>],
              [lead |-> <<"H", "e", "r", "e", " ", "i", "s", " ", "t", "h", "e", " ", "J", "S", "O", "N",
      ":", " ">>, body |-> GoodObject, trail |-> <<" ", "D", "o", "n", "e", ".">>],
              [lead |-> <<"H", "e", "r", "e", " ", "i", "t", " ", "i", "s", ":", " ">>, body |-> JsonBroken, trail |-> <<>>],
              [lead |-> <<"A", "s", " ", "i", "n", " ", "{", "x", "}", ":", " ">>, body |-> GoodObject, trail |-> <<>>],
              [lead |-> <<>>, body |-> GoodObject, trail |-> <<" ", "a", "n", "d", " ", "{", "m", "o", "r", "e", "}">>],
              [lead |-> <<"T", "h", "e", " ", "a", "n", "s", "w", "e", "r", " ", "i", "s", " ">>, body |-> JsonInt(7), trail |-> <<>>]}

NoReply == Bare(JsonNothing)

ClientPool ==
    {[kind |-> "none", reply |-> NoReply], [kind |-> "raises", reply |-> NoReply]}
        \cup {[kind |-> "returns", reply |-> r] : r \in ReplyPool}

\* The risk test_llm_pipeline.py explains, a risk without any field, and a
\* risk without a detected signal and with an empty redline suggestion.
RiskPool ==
    {[description |-> <<"A", "t", "-", "w", "i", "l", "l", " ", "t", "e", "r", "m", "i", "n", "a", "t",
      "i", "o", "n">>,
      why_risky |-> <<"E", "m", "p", "l", "o", "y", "e", "e", " ", "h", "a", "s", " ", "n", "o", " ",
      "j", "o", "b", " ", "s", "e", "c", "u", "r", "i", "t", "y", ".">>,
      signals |-> <<[name |-> <<"a", "t", "_", "w", "i", "l", "l">>, value |-> TRUE],
                    [name |-> <<"n", "o", "t", "i", "c", "e", "_", "p", "e", "r", "i", "o", "d">>, value |-> FALSE],
                    [name |-> <<"w", "i", "t", "h", "o", "u", "t", "_", "c", "a", "u", "s", "e">>, value |-> TRUE]>>,
      redline_suggestion |-> <<"A", "d", "d", " ", "a", " ", "n", "o", "t", "i", "c", "e", " ", "p", "e", "r",
      "i", "o", "d", ".">>],
     [k \in {} |-> <<>>],
     [description |-> <<"B", "r", "o", "a", "d", " ", "i", "n", "d", "e", "m", "n", "i", "t", "y">>,
      signals |-> <<[name |-> <<"o", "n", "e", "_", "s", "i", "d", "e", "d">>, value |-> FALSE]>>,
      redline_suggestion |-> <<>>]}

\* LLMResponseHandler(client).explain_risk_with_llm(risk)
Explain(risk, client) ==
    /\ ~explanation.called
    /\ explanation' =
            [called |-> TRUE, client |-> client, risk |-> risk,
             result |-> explain_risk_with_llm(client, risk)]
    /\ UNCHANGED <<segVars, classVars, pipelineVars, engineVars, clauseVars, contractVars, contract_type, perspective>>

ExplainNext == \E risk \in RiskPool, client \in ClientPool : Explain(risk, client)

ExplainSpec == Init /\ [][ExplainNext]_vars

Explained == explanation.called

\* The reply of the client, when it returned one.
Reply == explanation.client.reply

Replied == Explained /\ explanation.client.kind = "returns"

IsJsonValue(body) == body.kind \in {"str", "int", "list", "dict"}

AllSpaces(s) == \A i \in 1..Len(s) : s[i] = " "

\* The reply is JSON as it stands.
ParsesAsJson == IsJsonValue(Reply.body) /\ AllSpaces(Reply.lead) /\ AllSpaces(Reply.trail)

\* The span from the first "{" to the last "}" of the reply is a JSON object.
HoldsJsonObject ==
    /\ Reply.body.kind = "dict"
    /\ \A i \in 1..Len(Reply.lead) : Reply.lead[i] # "{"
    /\ \A i \in 1..Len(Reply.trail) : Reply.trail[i] # "}"

\* The value of a field of the reply, Absent when it has none.
FieldOf(f) ==
    IF Reply.body.kind = "dict" /\ f \in DOMAIN Reply.body.fields
    THEN Reply.body.fields[f]
    ELSE Absent

NonEmpty(v) ==
    \/ v.kind = "str" /\ Len(v.chars) > 0
    \/ v.kind = "int" /\ v.n # 0
    \/ v.kind = "list" /\ Len(v.items) > 0

AllFieldsNonEmpty == \A f \in FieldNames : NonEmpty(FieldOf(f))

\* The three texts of the reply, joined by spaces, in lower case.
JoinedTexts ==
    lower(FieldOf("summary").chars \o <<" ">> \o FieldOf("why_risky").chars
            \o <<" ">> \o FieldOf("example_wording").chars)

PlaceholderPhrases ==
    {<<"i", " ", "c", "a", "n", "n", "o", "t">>, <<"u", "n", "a", "b", "l", "e", " ", "t", "o", " ", "e", "x", "p", "l", "a", "i",
      "n">>, <<"n", "o", " ", "i", "n", "f", "o", "r", "m", "a", "t", "i", "o", "n", " ", "p",
      "r", "o", "v", "i", "d", "e", "d">>,
     <<"i", "n", "s", "u", "f", "f", "i", "c", "i", "e", "n", "t", " ", "d", "a", "t",
      "a">>, <<"n", "o", " ", "s", "i", "g", "n", "a", "l", "s">>}

Occurs(phrase, s) ==
    \E i \in 1..Len(s) :
        i + Len(phrase) - 1 <= Len(s) /\ SubSeq(s, i, i + Len(phrase) - 1) = phrase

NoPlaceholder == \A p \in PlaceholderPhrases : ~Occurs(p, JoinedTexts)

TextsAreStrings ==
    \A f \in {"summary", "why_risky", "example_wording"} : FieldOf(f).kind = "str"

\* The validation as it is stated: the four fields present and non-empty,
\* what_triggers a list, no placeholder phrase.
StatedValid ==
    /\ Replied
    /\ ParsesAsJson \/ HoldsJsonObject
    /\ AllFieldsNonEmpty
    /\ FieldOf("what_triggers").kind = "list"
    /\ NoPlaceholder

\* The record has the four fields, and what_triggers is a list.
WellFormed(r) ==
    /\ {"summary", "why_risky", "what_triggers", "example_wording", "source"} = DOMAIN r
    /\ DOMAIN r.what_triggers = 1..Len(r.what_triggers)

\* The default texts of the risk.
RuleDefault(key, default) ==
    IF key \in DOMAIN explanation.risk THEN explanation.risk[key] ELSE default

IsFallback(r) ==
    /\ r.source = "fallback"
    /\ r.summary = RuleDefault("description", <<"R", "i", "s", "k", " ", "d", "e", "t", "e", "c", "t", "e", "d">>)
    /\ r.why_risky = RuleDefault("why_risky", <<"T", "h", "i", "s", " ", "c", "l", "a", "u", "s", "e", " ", "p", "o", "s", "e",
      "s", " ", "a", " ", "l", "e", "g", "a", "l", " ", "r", "i", "s", "k", ".">>)
    /\ r.example_wording \in
            {RuleDefault("redline_suggestion", <<>>),
             <<"N", "e", "g", "o", "t", "i", "a", "t", "e", " ", "d", "i", "f", "f", "e", "r",
      "e", "n", "t", " ", "t", "e", "r", "m", "s", " ", "t", "o", " ", "a", "d", "d",
      "r", "e", "s", "s", " ", "t", "h", "e", " ", "i", "d", "e", "n", "t", "i", "f",
      "i", "e", "d", " ", "r", "i", "s", "k", ".">>}
    /\ r.example_wording # <<>>
    /\ r.what_triggers # <<>>

Trimmed(s) ==
    IF AllSpaces(s) THEN <<>>
    ELSE SubSeq(s, CHOOSE i \in 1..Len(s) : s[i] # " " /\ \A j \in 1..(i - 1) : s[j] = " ",
                   CHOOSE i \in 1..Len(s) : s[i] # " " /\ \A j \in (i + 1)..Len(s) : s[j] = " ")

IsLlm(r) ==
    /\ r.source = "llm"
    /\ r.summary = Trimmed(FieldOf("summary").chars)
    /\ r.why_risky = Trimmed(FieldOf("why_risky").chars)
    /\ r.example_wording = Trimmed(FieldOf("example_wording").chars)
    /\ r.what_triggers = FieldOf("what_triggers").items

Line_Scope == <<"1", ".", " ", "S", "c", "o", "p", "e">>

Line_Term == <<"2", ".", " ", "T", "e", "r", "m">>

Line_Fees11 == <<"1", ".", "1", " ", "F", "e", "e", "s">>

\* Two sentences, one end mark.
Line_OneMark == <<"P", "a", "y", " ", "n", "o", "w", ".", " ", "T", "h", "a", "n", "k", "s">>

\* One sentence, three end marks.
Line_Ellipsis == <<"W", "a", "i", "t", ".", ".", ".">>

Line_Agreed == <<"A", "g", "r", "e", "e", "d">>

Line_TwoMarks == <<"P", "a", "y", " ", "n", "o", "w", "!", " ", "T", "h", "a", "n", "k", "s", "?">>

\* 155 characters without an end mark.
Line_Long ==
    <<"T", "h", "e", " ", "s", "u", "p", "p", "l", "i", "e", "r", " ", "w", "i", "l",
      "l", " ", "d", "e", "l", "i", "v", "e", "r", " ", "t", "h", "e", " ", "g", "o",
      "o", "d", "s", " ", "t", "o", " ", "t", "h", "e", " ", "b", "u", "y", "e", "r",
      " ", "a", "t", " ", "t", "h", "e", " ", "a", "g", "r", "e", "e", "d", " ", "p",
      "l", "a", "c", "e", " ", "a", "n", "d", " ", "t", "h", "e", " ", "b", "u", "y",
      "e", "r", " ", "w", "i", "l", "l", " ", "a", "c", "c", "e", "p", "t", " ", "t",
      "h", "e", "m", " ", "a", "n", "d", " ", "p", "a", "y", " ", "t", "h", "e", " ",
      "a", "g", "r", "e", "e", "d", " ", "p", "r", "i", "c", "e", " ", "w", "i", "t",
      "h", "i", "n", " ", "t", "h", "i", "r", "t", "y", " ", "d", "a", "y", "s", " ",
      "o", "f", " ", "t", "h", "e", " ", "d", "a", "t", "e">>

SubstancePool ==
    {Line_Scope, Line_Term, Line_Fees11, Line_OneMark, Line_Ellipsis, Line_Agreed,
     Line_TwoMarks, Line_Long}

\* The segmenter on clauses with short, long and punctuated bodies.
SubstanceNext ==
    \/ \E l \in SubstancePool : AddLine(l)
    \/ Segment

SubstanceSpec == Init /\ [][SubstanceNext]_vars

\* The number of the characters . ! ? in a body.
EndMarks(body) == Cardinality({i \in 1..Len(body) : body[i] \in {".", "!", "?"}})

\* The pieces of a body between its runs of . ! ? that hold more than
\* white space, each named by the position where it starts.
NonBlankPieces(body) ==
    {i \in 1..Len(body) :
        /\ body[i] \notin {".", "!", "?"}
        /\ i = 1 \/ body[i - 1] \in {".", "!", "?"}
        /\ \E j \in i..Len(body) :
            /\ body[j] \notin {" ", "\t", "\n"}
            /\ \A k \in i..j : body[k] \notin {".", "!", "?"}}

\* The entering clause at position i is in the output of the integrity step.
Kept(i) == EnteringTop[i] \in Range(top)

NoHeadingFound == Done /\ ~Blank(text) /\ headings = <<>>

\* The lines where a paragraph starts: a line that is not blank, at the
\* start of the text or after a blank line.
ParagraphStarts ==
    {k \in 1..Len(InputLines) :
        ~Blank(InputLines[k]) /\ (k = 1 \/ Blank(InputLines[k - 1]))}

\* The number of paragraphs the text splits into: those delimited by blank
\* lines when the text has a blank line, else the lines longer than 50
\* characters.
ParagraphCount ==
    IF \E k \in 1..Len(InputLines) : Blank(InputLines[k])
    THEN Cardinality(ParagraphStarts)
    ELSE Cardinality({k \in 1..Len(InputLines) : Len(InputLines[k]) > 50})

\* "Section N" for N up to 20
SectionTitle(n) ==
    <<"S", "e", "c", "t", "i", "o", "n", " ">> \o (IF n >= 10 THEN <<DigitChars[(n \div 10) + 1]>> ELSE <<>>)
        \o <<DigitChars[(n % 10) + 1]>>

\* The returned list is the single clause titled "Contract".
SingleContractClause ==
    /\ Len(top) = 1
    /\ node[top[1]].title = <<"C", "o", "n", "t", "r", "a", "c", "t">>
    /\ node[top[1]].subclauses = <<>>

\* C22 as stated: when the scan pass finds no heading in a non-empty text,
\* segment_clauses returns the paragraphs of the text (at most 20) as flat
\* clauses titled "Section N", and the single clause titled "Contract" only
\* when the text has no paragraph.
C22_ParagraphFallback ==
    NoHeadingFound =>
        IF ParagraphCount > 0
        THEN /\ Len(top) = (IF ParagraphCount > 20 THEN 20 ELSE ParagraphCount)
             /\ \A k \in 1..Len(top) :
                    /\ node[top[k]].title = SectionTitle(k)
                    /\ node[top[k]].subclauses = <<>>
        ELSE SingleContractClause

\* C22 (amended): when the scan pass finds no heading in a text that is not
\* blank, segment_clauses returns exactly one clause: id "1", title
\* "Contract", no children, and as its body the whole text without the
\* white space around it, blank lines and line breaks inside it kept.
C22_SingleClauseFallback ==
    NoHeadingFound =>
        /\ SingleContractClause
        /\ node[top[1]].id = <<"1">>
        /\ \E a \in 1..Len(text), b \in 1..Len(text) :
            /\ node[top[1]].text = SubSeq(text, a, b)
            /\ ~Blank(<<text[a]>>) /\ ~Blank(<<text[b]>>)
            /\ Blank(SubSeq(text, 1, a - 1)) /\ Blank(SubSeq(text, b + 1, Len(text)))

\* A text of two paragraphs with a blank line between them came back as
\* the single clause.
C22_Witness ==
    /\ NoHeadingFound
    /\ text = Line_Body1 \o <<"\n">> \o Line_Blank \o <<"\n">> \o Line_Body21
    /\ SingleContractClause
    /\ node[top[1]].text = text

(***************************************************************************)
(* ARTICLE and SECTION headings among numeric ones.                        *)
(***************************************************************************)
Line_Section10 ==
    <<"S", "E", "C", "T", "I", "O", "N", " ", "1", "0", " ", "T", "a", "x", "e", "s",
      ".", " ", "D", "u", "e", " ", "n", "o", "w", ".", " ", "N", "o", " ", "o", "f",
      "f", "s", "e", "t", ".">>

Line_Section2 ==
    <<"S", "E", "C", "T", "I", "O", "N", " ", "2", " ", "T", "e", "r", "m", ".", " ",
      "O", "n", "e", " ", "y", "e", "a", "r", ".", " ", "N", "o", " ", "r", "e", "n",
      "e", "w", "a", "l", ".">>

Line_ArticleV ==
    <<"A", "R", "T", "I", "C", "L", "E", " ", "V", " ", "-", " ", "F", "e", "e", "s",
      ".", " ", "N", "e", "t", " ", "t", "h", "i", "r", "t", "y", ".", " ", "N", "o",
      " ", "s", "e", "t", "o", "f", "f", ".">>

ArticlePool == {Line_Section10, Line_Section2, Line_ArticleV, Line_H1s, Line_H2s, Line_BodyMail}

\* The segmenter on ARTICLE, SECTION and numeric headings in any order.
ArticleNext ==
    \/ \E l \in ArticlePool : AddLine(l)
    \/ Segment

ArticleSpec == Init /\ [][ArticleNext]_vars

\* The id starts with the keyword ARTICLE or SECTION and a space.
IsKeywordId(id) ==
    \E kw \in {<<"A", "R", "T", "I", "C", "L", "E", " ">>, <<"S", "E", "C", "T", "I", "O", "N", " ">>} :
        Len(id) > Len(kw) /\ SubSeq(id, 1, Len(kw)) = kw

\* What follows the keyword and the space in an ARTICLE or SECTION id.
IdNumeral(id) == SubSeq(id, 9, Len(id))

\* C23: in the returned top-level list the clauses with ARTICLE or SECTION
\* ids come after the clauses with plain numeric ids, and those whose id
\* holds a decimal number are ordered among themselves by that number.
C23_KeywordIdsAfterNumericIds ==
    Done =>
        \A i \in 1..Len(top), j \in 1..Len(top) :
            i < j =>
                /\ ~(IsKeywordId(TopIds[i]) /\ isdigit(TopIds[j]))
                /\ (/\ IsKeywordId(TopIds[i]) /\ isdigit(IdNumeral(TopIds[i]))
                    /\ IsKeywordId(TopIds[j]) /\ isdigit(IdNumeral(TopIds[j]))) =>
                        ParseInt(IdNumeral(TopIds[i])) <= ParseInt(IdNumeral(TopIds[j]))

(***************************************************************************)
(* ContractAnalyzer.analyze_contract on clause lists a caller puts         *)
(* together.  In the model None is the empty sequence, so the perspectives  *)
(* below are None or strings that are not empty.                           *)
(***************************************************************************)
Subclause_AtWill ==
    [id |-> <<"1", ".", "1">>, title |-> <<"A", "t", "-", "W", "i", "l", "l">>, text |-> Line_Body21, subclauses |-> <<>>]

\* An indemnity clause without subclauses.
Top_Indemnity ==
    [id |-> <<"1">>, title |-> Title_Indemnification, text |-> Line_Body1, subclauses |-> <<>>]

\* The same clause with a subclause about termination.
Top_IndemnityWithSubclause ==
    [id |-> <<"1">>, title |-> Title_Indemnification, text |-> Line_Body1,
     subclauses |-> <<Subclause_AtWill>>]

\* A clause without risk that holds a subclause about termination.
Top_Mail ==
    [id |-> <<"3">>, title |-> Title_General, text |-> Line_BodyMail,
     subclauses |-> <<Subclause_AtWill>>]

TopClausePool == {Top_Indemnity, Top_IndemnityWithSubclause, Top_Mail}

PipelinePerspectives == {None, employee, Employee}

PipelineContractTypes == {None, EMPLOYMENT}

\* The caller adds a clause it has not added yet.
Submit(c) ==
    /\ ~pipeline.called
    /\ c \notin Range(pipeline.clauses)
    /\ pipeline' = [pipeline EXCEPT !.clauses = Append(@, c)]
    /\ UNCHANGED <<segVars, classVars, explainVars, upload, engineVars, clauseVars, contractVars, contract_type, perspective>>

\* ContractAnalyzer().analyze_contract(clauses, contract_type, perspective)
Analyze(ct, p) ==
    /\ ~pipeline.called
    /\ pipeline' =
            [clauses |-> pipeline.clauses, called |-> TRUE, contract_type |-> ct,
             perspective |-> p,
             outcome |-> ContractAnalyzer_analyze_contract(pipeline.clauses, ct, p)]
    /\ UNCHANGED <<segVars, classVars, explainVars, upload, engineVars, clauseVars, contractVars, contract_type, perspective>>

PipelineNext ==
    \/ \E c \in TopClausePool : Submit(c)
    \/ \E ct \in PipelineContractTypes, p \in PipelinePerspectives : Analyze(ct, p)

PipelineSpec == Init /\ [][PipelineNext]_vars

\* The call of the analyzer returned a result of the whole pipeline.
Analyzed == pipeline.called /\ pipeline.outcome.raised = "none" /\ pipeline.clauses # <<>>

\* The clause as the caller handed it in.
AsHandedIn(enriched) ==
    [id |-> enriched.id, title |-> enriched.title, text |-> enriched.text,
     subclauses |-> enriched.subclauses]

\* The two clauses differ in nothing but their subclauses.
SameButSubclauses(c, d) == c.id = d.id /\ c.title = d.title /\ c.text = d.text

C27_NoPerspectiveReturns ==
    (pipeline.called /\ pipeline.clauses # <<>> /\ pipeline.perspective = None) =>
        pipeline.outcome.raised = "none"

(***************************************************************************)
(* The entry function analyze_contract(file_path, perspective) on the      *)
(* text of an uploaded file.  ingest_contract returns a dict without the   *)
(* key "success", so the entry function goes on to the segmenter.          *)
(***************************************************************************)
UploadLinePool == {Line_H1, Line_Body1, Line_H4, Line_H2s}

UploadPerspectives == {employee, employer}

\* The file gets one more line, which it does not hold yet.
AddUploadLine(l) ==
    /\ ~upload.called
    /\ l \notin Range(upload.lines)
    /\ upload' = [upload EXCEPT !.lines = Append(@, l)]
    /\ UNCHANGED <<segVars, classVars, explainVars, pipeline, engineVars, clauseVars, contractVars, contract_type, perspective>>

RECURSIVE JoinedLines(_)
\* The text of the file: its lines with a newline between them.
JoinedLines(lines) ==
    IF lines = <<>> THEN <<>>
    ELSE IF Len(lines) = 1 THEN lines[1]
    ELSE lines[1] \o <<"\n">> \o JoinedLines(Tail(lines))

\* analyze_contract(file_path, perspective); segmented is the clause list
\* the segmenter returned inside the call.
Upload(p) ==
    /\ ~upload.called
    /\ upload' =
            [lines |-> upload.lines, called |-> TRUE, perspective |-> p,
             segmented |-> ClauseList(segment_clauses(JoinedLines(upload.lines))),
             outcome |-> analyze_contract_file(
                            [success |-> TRUE, text |-> JoinedLines(upload.lines)], p)]
    /\ UNCHANGED <<segVars, classVars, explainVars, pipeline, engineVars, clauseVars, contractVars, contract_type, perspective>>

UploadNext ==
    \/ \E l \in UploadLinePool : AddUploadLine(l)
    \/ \E p \in UploadPerspectives : Upload(p)

UploadSpec == Init /\ [][UploadNext]_vars

\* The verdicts the risk engine gives.
EngineVerdicts == {"LOW", "MEDIUM", "HIGH"}

\* The result is the one of a failed parse: no verdict, no counts and no
\* clause analyses.
IsParseFailure(result) ==
    /\ result.status = "PARSE_FAILED"
    /\ result.risk_analysis.overall_risk = "UNKNOWN"
    /\ result.risk_analysis.total_clauses = 0
    /\ result.risk_analysis.high_risk_clauses = 0
    /\ result.risk_analysis.medium_risk_clauses = 0
    /\ result.risk_analysis.low_risk_clauses = 0
    /\ result.risk_analysis.clause_analyses = <<>>
    /\ result.explanations.overall_risk_level = "UNKNOWN"

C26_FailedLoadLeavesRules ==
    [][(loads' # loads /\ raised'.type # "none") => rules' = rules]_vars

(***************************************************************************)
(* Texts in which a clause id occurs in more than one heading.             *)
(***************************************************************************)
Line_Section10Fees ==
    <<"S", "E", "C", "T", "I", "O", "N", " ", "1", "0", " ", "F", "e", "e", "s", ".",
      " ", "N", "e", "t", " ", "t", "h", "i", "r", "t", "y", ".", " ", "N", "o", " ",
      "s", "e", "t", "o", "f", "f", ".">>

Line_H22 == <<"2", ".", "2", " ", "N", "o", "t", "i", "c", "e">>

Line_H21Waiver == <<"2", ".", "1", " ", "W", "a", "i", "v", "e", "r">>

DuplicatePool ==
    {Line_Section2, Line_Section10, Line_Section10Fees, Line_H2s, Line_H21, Line_H22,
     Line_H21Waiver, Line_BodyMail}

\* The segmenter on texts with repeated clause ids.
DuplicateNext ==
    \/ \E l \in DuplicatePool : AddLine(l)
    \/ Segment

DuplicateSpec == Init /\ [][DuplicateNext]_vars

\* The headings that carry the id.
HeadingsWithId(id) == {k \in 1..Len(headings) : headings[k].clause_id = id}

\* The ids that more than one heading carries.
RepeatedIds == {id \in DOMAIN node : Cardinality(HeadingsWithId(id)) >= 2}

\* The body the segmenter takes for the k-th heading.
BodyOfHeading(k) == ClauseBody(split(text, "\n"), headings, k)

\* No value occurs twice in the sequence.
NoRepeats(seq) == \A i \in 1..Len(seq), j \in 1..Len(seq) : seq[i] = seq[j] => i = j

\* The sequence starts with the given sequence.
StartsWith(seq, start) == Len(seq) >= Len(start) /\ SubSeq(seq, 1, Len(start)) = start

\* In the list the ids come in the order of their first headings, among the
\* ids with equal sort keys when byKey holds.
InDiscoveryOrder(ids, byKey) ==
    \A i \in 1..Len(ids), j \in 1..Len(ids) :
        (i < j /\ (byKey => _clause_sort_key(ids[i]) = _clause_sort_key(ids[j]))) =>
            Min(HeadingsWithId(ids[i])) < Min(HeadingsWithId(ids[j]))

\* The body of the heading occurs in the body of no heading that is the
\* last one with its id.
BodyOnlyThere(k) ==
    \A id \in DOMAIN node : ~Contains(BodyOfHeading(Max(HeadingsWithId(id))), BodyOfHeading(k))

\* C28: for a clause id that several headings carry the returned tree holds
\* at most one clause: no id occurs twice among the top-level clauses or
\* among the subclauses of a clause; a returned clause with such an id has
\* the title of the last of these headings and its text starts with the
\* body of that heading; it stands where the first of these headings put
\* the id; and the body of an earlier one of these headings is in the text
\* of no returned clause.
C28_RepeatedIdLastWins ==
    (Done /\ headings # <<>>) =>
        /\ NoRepeats(top)
        /\ \A id \in DOMAIN node : NoRepeats(node[id].subclauses)
        /\ InDiscoveryOrder(top, TRUE)
        /\ \A id \in DOMAIN node : InDiscoveryOrder(node[id].subclauses, FALSE)
        /\ \A id \in RepeatedIds \cap TreeIds :
            /\ node[id].title = headings[Max(HeadingsWithId(id))].title
            /\ StartsWith(node[id].text, BodyOfHeading(Max(HeadingsWithId(id))))
        /\ \A id \in RepeatedIds : \A k \in HeadingsWithId(id) \ {Max(HeadingsWithId(id))} :
            (BodyOfHeading(k) # <<>> /\ BodyOnlyThere(k)) =>
                \A other \in TreeIds : ~Contains(node[other].text, BodyOfHeading(k))

\* SECTION 10 was met twice with SECTION 2 between: the returned list holds
\* SECTION 10 first, with the title and the body of its second heading.
C28_Witness ==
    /\ Done
    /\ text = Line_Section10 \o <<"\n">> \o Line_Section2 \o <<"\n">> \o Line_Section10Fees
    /\ Len(top) = 2
    /\ node[top[1]].id = <<"S", "E", "C", "T", "I", "O", "N", " ", "1", "0">>
    /\ node[top[1]].title = <<"F", "e", "e", "s">>
    /\ node[top[1]].text = <<"N", "e", "t", " ", "t", "h", "i", "r", "t", "y", ".", " ", "N", "o", " ", "s",
      "e", "t", "o", "f", "f", ".">>
    /\ node[top[2]].id = <<"S", "E", "C", "T", "I", "O", "N", " ", "2">>

\* The lines of the text, numbered from 1.
TextLines == split(text, "\n")

\* The numbers of the lines that are detected headings.
HeadingLineNumbers == {headings[k].line_index + 1 : k \in 1..Len(headings)}

\* Line i is neither a detected heading nor noise.
IsBodyLine(i) == i \notin HeadingLineNumbers /\ ~is_noise_line(strip(TextLines[i]))

\* The lines before the first detected heading that are not noise.
PreambleLines == {i \in 1..headings[1].line_index : IsBodyLine(i)}

\* The number of the nearest detected heading above line i.
HeadingAbove(i) == Max({k \in 1..Len(headings) : headings[k].line_index + 1 < i})

\* The lines that have the k-th heading as the nearest heading above them,
\* in the order of the text.
AssignedLines(k) ==
    Indices(Len(TextLines),
            LAMBDA i : i > headings[1].line_index + 1 /\ IsBodyLine(i) /\ HeadingAbove(i) = k)

\* These lines without their surrounding white space, with one space between.
JoinedAssigned(k) ==
    join(<<" ">>, [j \in 1..Len(AssignedLines(k)) |-> strip(TextLines[AssignedLines(k)[j]])])

\* The sequence ends with the given sequence.
EndsWith(seq, end) ==
    Len(seq) >= Len(end) /\ SubSeq(seq, Len(seq) - Len(end) + 1, Len(seq)) = end

\* The line occurs in no line from the first heading on.
OnlyInPreamble(i) ==
    \A j \in (headings[1].line_index + 1)..Len(TextLines) :
        ~Contains(TextLines[j], strip(TextLines[i]))

\* C29: when a heading was detected, a line before the first detected
\* heading is in the text of no returned clause, and every later line that
\* is neither noise nor a detected heading belongs to the body of the
\* nearest detected heading above it: that body is made of what follows the
\* heading on its own line and then of exactly these lines in their order,
\* and a returned clause whose heading is the last with its id starts with
\* this body.
C29_LinesGoToHeadingAbove ==
    (Done /\ headings # <<>>) =>
        /\ \A i \in PreambleLines :
            OnlyInPreamble(i) =>
                \A id \in TreeIds : ~Contains(node[id].text, strip(TextLines[i]))
        /\ \A k \in 1..Len(headings) :
            /\ EndsWith(BodyOfHeading(k), JoinedAssigned(k))
            /\ Len(BodyOfHeading(k)) <= Len(JoinedAssigned(k)) + Len(headings[k].line)
            /\ (k = Max(HeadingsWithId(headings[k].clause_id))
                    /\ headings[k].clause_id \in TreeIds) =>
                StartsWith(node[headings[k].clause_id].text, BodyOfHeading(k))

\* A line stood before the only heading and a line after it: the returned
\* clause holds the second line and not the first.
C29_Witness ==
    /\ Done
    /\ text = Line_Body1 \o <<"\n">> \o Line_H3 \o <<"\n">> \o Line_Body21
    /\ Len(top) = 1
    /\ node[top[1]].text = <<"N", "e", "t", " ", "t", "h", "i", "r", "t", "y", ".", " ", "N", "o", " ", "s",
      "e", "t", "o", "f", "f", ".", " ">> \o Line_Body21
    /\ ~Contains(node[top[1]].text, Line_Body1)

(***************************************************************************)
(* A caller that revises one clause of an analysed contract and has the    *)
(* contract analysed again.                                                *)
(***************************************************************************)
\* The k-th clause is replaced by c and analyze_contract is called on the
\* revised list, with the context of the call before.
ReplaceClause(k, c) ==
    /\ report # NoReport
    /\ k \in 1..Len(contract)
    /\ contract[k] # c
    /\ contract' = [contract EXCEPT ![k] = c]
    /\ report' = analyze_contract(rules, contract', contract_type, perspective)
    /\ UNCHANGED <<segVars, classVars, explainVars, pipelineVars, engineVars, clauseVars, contract_type, perspective>>

RevisionNext ==
    \/ \E c \in ContractClausePool : AddClause(c)
    \/ AnalyzeContract(None, None)
    \/ \E k \in 1..MaxClauses, c \in ContractClausePool : ReplaceClause(k, c)

RevisionSpec == Init /\ [][RevisionNext]_vars

\* The risk levels of the clauses of a report, in the order of the clauses.
LevelsOf(r) == [k \in 1..Len(r.clause_analyses) |-> r.clause_analyses[k].risk_level]

\* The second list of levels is the first with one level raised.
OneRaised(before, after) ==
    /\ Len(before) = Len(after)
    /\ \E k \in 1..Len(before) :
        /\ Rank(after[k]) > Rank(before[k])
        /\ \A j \in 1..Len(before) : j # k => after[j] = before[j]

\* C30: when a contract is analysed again after the level of one of its
\* clauses went up (LOW to MEDIUM, MEDIUM to HIGH or LOW to HIGH) and the
\* levels of the others stayed, overall_risk is not lower than before; and
\* in every report the numbers of HIGH, MEDIUM and LOW clauses add up to the
\* number of clauses.
C30_VerdictMonotone ==
    [][/\ (Reported /\ Reported' /\ OneRaised(LevelsOf(report), LevelsOf(report'))) =>
            Rank(report'.overall_risk) >= Rank(report.overall_risk)
       /\ Reported' =>
            /\ report'.high_risk_clauses + report'.medium_risk_clauses
                    + report'.low_risk_clauses = Len(contract')
            /\ report'.total_clauses = Len(contract')]_vars

\* Five MEDIUM clauses of which one was raised to HIGH: the contract was
\* MEDIUM for its five MEDIUM clauses and is MEDIUM for its HIGH clause.
C30_Witness ==
    /\ Reported
    /\ LevelsOf(report) = <<"HIGH", "MEDIUM", "MEDIUM", "MEDIUM", "MEDIUM">>
    /\ contract = <<Clause_Indemnity, Clause_Fees, Clause_Fees, Clause_Fees, Clause_Fees>>
    /\ report.overall_risk = "MEDIUM"

====
